---- MODULE Spec2Model ----
(***************************************************************************)
(* MiiBrowser: the JavaScript tree walker (src/src/miibrowser/js_parser.py)*)
(* as a state machine.  A JSParser object is its two fields, ast and       *)
(* source_code; every public method is an operator from the object and the *)
(* arguments to the object after the call, the value returned or raised,   *)
(* and the esprima parses the call stored through self.parse and           *)
(* self.parse_module.  esprima itself is an external library: it is a      *)
(* table of sources with what esprima answers on each.                     *)
(***************************************************************************)
EXTENDS Integers, Sequences, FiniteSets, TLC

(***************************************************************************)
(* Python values                                                           *)
(***************************************************************************)
\* None in a slot that otherwise holds a string (a name, a code argument).
None == "None"
\* None in a slot that otherwise holds an esprima object (self.ast).
NoneObj == [none |-> TRUE]

\* dict.get(key) with the default None, for a key that holds a string ...
Get(node, key) == IF key \in DOMAIN node THEN node[key] ELSE None
\* ... for a key that holds a dict ...
GetObj(node, key) == IF key \in DOMAIN node THEN node[key] ELSE NoneObj
\* ... and dict.get(key, False) for a key that holds a flag.
GetFlag(node, key) == IF key \in DOMAIN node THEN node[key] ELSE FALSE
\* bool(s) of a string or None: `if code:`, `if value:`, `p.get('name')`.
Truthy(s) == s # None /\ s # ""

\* a value returned, a value raised
Return(v) == [kind |-> "return", val |-> v]
Raise(msg) == [kind |-> "raise", val |-> msg]

(***************************************************************************)
(* ESTree nodes as esprima's toDict() gives them: a record of the node's   *)
(* keys; keys lists, in the dict's order, the keys whose value is a dict   *)
(* or a list of dicts, and lists says which of them are lists.             *)
(***************************************************************************)
Identifier(name) ==
    [type |-> "Identifier", name |-> name, keys |-> <<>>, lists |-> {}]
Literal(value) ==
    [type |-> "Literal", value |-> value, keys |-> <<>>, lists |-> {}]
BlockStatement(body) ==
    [type |-> "BlockStatement", body |-> body, keys |-> <<"body">>, lists |-> {"body"}]
ExpressionStatement(e) ==
    [type |-> "ExpressionStatement", expression |-> e, keys |-> <<"expression">>, lists |-> {}]
ReturnStatement(arg) ==
    [type |-> "ReturnStatement", argument |-> arg, keys |-> <<"argument">>, lists |-> {}]
FunctionDeclaration(id, params, body) ==
    [type |-> "FunctionDeclaration", id |-> id, params |-> params, body |-> body,
     generator |-> FALSE, expression |-> FALSE, async |-> FALSE,
     keys |-> <<"id", "params", "body">>, lists |-> {"params"}]
CallExpression(callee, args) ==
    [type |-> "CallExpression", callee |-> callee, arguments |-> args,
     keys |-> <<"callee", "arguments">>, lists |-> {"arguments"}]
AssignmentExpression(left, right) ==
    [type |-> "AssignmentExpression", operator |-> "=", left |-> left, right |-> right,
     keys |-> <<"left", "right">>, lists |-> {}]
VariableDeclarator(id, init) ==
    [type |-> "VariableDeclarator", id |-> id, init |-> init,
     keys |-> <<"id", "init">>, lists |-> {}]
VariableDeclaration(kind, decls) ==
    [type |-> "VariableDeclaration", declarations |-> decls, kind |-> kind,
     keys |-> <<"declarations">>, lists |-> {"declarations"}]
ImportDefaultSpecifier(local) ==
    [type |-> "ImportDefaultSpecifier", local |-> local, keys |-> <<"local">>, lists |-> {}]
ImportDeclaration(specs, source) ==
    [type |-> "ImportDeclaration", specifiers |-> specs, source |-> source,
     keys |-> <<"specifiers", "source">>, lists |-> {"specifiers"}]
JSXElement(name) ==
    [type |-> "JSXElement", name |-> name, keys |-> <<>>, lists |-> {}]
AsyncFunctionDeclaration(id, params, body) ==
    [FunctionDeclaration(id, params, body) EXCEPT !.async = TRUE]
FunctionExpression(id, params, body, generator) ==
    [type |-> "FunctionExpression", id |-> id, params |-> params, body |-> body,
     generator |-> generator, expression |-> FALSE, async |-> FALSE,
     keys |-> <<"id", "params", "body">>, lists |-> {"params"}]
ArrowFunctionExpression(params, body) ==
    [type |-> "ArrowFunctionExpression", id |-> NoneObj, params |-> params, body |-> body,
     generator |-> FALSE, expression |-> body.type # "BlockStatement", async |-> FALSE,
     keys |-> <<"id", "params", "body">>, lists |-> {"params"}]
AsyncArrowFunctionExpression(params, body) ==
    [ArrowFunctionExpression(params, body) EXCEPT !.async = TRUE]
ObjectPattern(properties) ==
    [type |-> "ObjectPattern", properties |-> properties,
     keys |-> <<"properties">>, lists |-> {"properties"}]
AssignmentPattern(left, right) ==
    [type |-> "AssignmentPattern", left |-> left, right |-> right,
     keys |-> <<"left", "right">>, lists |-> {}]
RestElement(argument) ==
    [type |-> "RestElement", argument |-> argument, keys |-> <<"argument">>, lists |-> {}]
ClassBody(body) ==
    [type |-> "ClassBody", body |-> body, keys |-> <<"body">>, lists |-> {"body"}]
ClassDeclaration(id, superClass, body) ==
    [type |-> "ClassDeclaration", id |-> id, superClass |-> superClass, body |-> body,
     keys |-> <<"id", "superClass", "body">>, lists |-> {}]
IfStatement(test, consequent, alternate) ==
    [type |-> "IfStatement", test |-> test, consequent |-> consequent,
     alternate |-> alternate, keys |-> <<"test", "consequent", "alternate">>, lists |-> {}]
ConditionalExpression(test, consequent, alternate) ==
    [type |-> "ConditionalExpression", test |-> test, consequent |-> consequent,
     alternate |-> alternate, keys |-> <<"test", "consequent", "alternate">>, lists |-> {}]
ForStatement(init, test, update, body) ==
    [type |-> "ForStatement", init |-> init, test |-> test, update |-> update,
     body |-> body, keys |-> <<"init", "test", "update", "body">>, lists |-> {}]
WhileStatement(test, body) ==
    [type |-> "WhileStatement", test |-> test, body |-> body,
     keys |-> <<"test", "body">>, lists |-> {}]
Program(body, sourceType) ==
    [type |-> "Program", body |-> body, sourceType |-> sourceType,
     keys |-> <<"body">>, lists |-> {"body"}]

(***************************************************************************)
(* esprima, the external ECMAScript parser: the sources the walker is fed  *)
(* and what esprima answers on each.                                       *)
(***************************************************************************)
SrcEmpty == ""
SrcFunctions == "// f\nfunction foo(){}\nfunction bar(x,y){}"
SrcImport == "import a from 'b';\nconst c = require('d');"
SrcInvalid == "const x = ;"
SrcReturn == "return 1;"
SrcJsx == "x = <a/>;"
SrcBadToken == "x = 'abc"
Sources ==
    {SrcEmpty, SrcFunctions, SrcImport, SrcInvalid, SrcReturn, SrcJsx, SrcBadToken}

Ok(obj) == [ok |-> TRUE, obj |-> obj]
Err(msg) == [ok |-> FALSE, err |-> msg]

BodyFunctions ==
    << FunctionDeclaration(Identifier("foo"), <<>>, BlockStatement(<<>>)),
       FunctionDeclaration(Identifier("bar"), <<Identifier("x"), Identifier("y")>>,
                           BlockStatement(<<>>)) >>
BodyImport ==
    << ImportDeclaration(<<ImportDefaultSpecifier(Identifier("a"))>>, Literal("b")),
       VariableDeclaration("const",
           <<VariableDeclarator(Identifier("c"),
                 CallExpression(Identifier("require"), <<Literal("d")>>))>>) >>
BodyReturn == << ReturnStatement(Literal("1")) >>
BodyJsx ==
    << ExpressionStatement(AssignmentExpression(Identifier("x"), JSXElement("a"))) >>

\* The comments esprima attaches to the result under the option comment.
CommentsOf(code) ==
    IF code = SrcFunctions
    THEN << [type |-> "Line", value |-> " f", range |-> <<0, 4>>] >>
    ELSE << >>

\* The result object of a parse: toDict() gives the tree, comments the comments.
Result(code, options, body, sourceType) ==
    IF options.comment
    THEN Ok([dict |-> Program(body, sourceType), comments |-> CommentsOf(code)])
    ELSE Ok([dict |-> Program(body, sourceType)])

\* The keyword arguments esprima defaults: jsx, tolerant and comment are off.
Options(given) ==
    [k \in {"jsx", "tolerant", "comment"} |-> IF k \in DOMAIN given THEN given[k] ELSE FALSE]

\* What the two grammars share: the body of the program, or the error.
Parsed(code, options, sourceType) ==
    CASE code = SrcEmpty -> Result(code, options, <<>>, sourceType)
      [] code = SrcFunctions -> Result(code, options, BodyFunctions, sourceType)
      [] code = SrcImport ->
            IF sourceType = "module" THEN Result(code, options, BodyImport, sourceType)
            ELSE Err("Line 1: Unexpected token")
      [] code = SrcInvalid -> Err("Line 1: Unexpected token ;")
      [] code = SrcReturn ->
            IF options.tolerant THEN Result(code, options, BodyReturn, sourceType)
            ELSE Err("Line 1: Illegal return statement")
      [] code = SrcJsx ->
            IF options.jsx THEN Result(code, options, BodyJsx, sourceType)
            ELSE Err("Line 1: Unexpected token <")
      [] OTHER -> Err("Line 1: Unexpected token ILLEGAL")

esprima_parseScript(code, options) == Parsed(code, Options(options), "script")
esprima_parseModule(code, options) == Parsed(code, Options(options), "module")

toDict(obj) == obj.dict

Token(type, value) == [type |-> type, value |-> value]
\* esprima.tokenize: the token list (String tokens keep their quotes), or the
\* lexical error.
esprima_tokenize(code) ==
    CASE code = SrcEmpty -> Ok(<< >>)
      [] code = SrcFunctions ->
            Ok(<< Token("Keyword", "function"), Token("Identifier", "foo"),
                  Token("Punctuator", "("), Token("Punctuator", ")"),
                  Token("Punctuator", "{"), Token("Punctuator", "}"),
                  Token("Keyword", "function"), Token("Identifier", "bar"),
                  Token("Punctuator", "("), Token("Identifier", "x"),
                  Token("Punctuator", ","), Token("Identifier", "y"),
                  Token("Punctuator", ")"), Token("Punctuator", "{"),
                  Token("Punctuator", "}") >>)
      [] code = SrcImport ->
            Ok(<< Token("Keyword", "import"), Token("Identifier", "a"),
                  Token("Identifier", "from"), Token("String", "'b'"),
                  Token("Punctuator", ";"), Token("Keyword", "const"),
                  Token("Identifier", "c"), Token("Punctuator", "="),
                  Token("Identifier", "require"), Token("Punctuator", "("),
                  Token("String", "'d'"), Token("Punctuator", ")"),
                  Token("Punctuator", ";") >>)
      [] code = SrcInvalid ->
            Ok(<< Token("Keyword", "const"), Token("Identifier", "x"),
                  Token("Punctuator", "="), Token("Punctuator", ";") >>)
      [] code = SrcReturn ->
            Ok(<< Token("Keyword", "return"), Token("Numeric", "1"),
                  Token("Punctuator", ";") >>)
      [] code = SrcJsx ->
            Ok(<< Token("Identifier", "x"), Token("Punctuator", "="),
                  Token("Punctuator", "<"), Token("Identifier", "a"),
                  Token("RegularExpression", "/>;") >>)
      [] OTHER -> Err("Line 1: Unexpected token ILLEGAL")

(***************************************************************************)
(* The traversals                                                          *)
(***************************************************************************)
\* node.get('id', {}).get('name') if node.get('id') else None
NameOf(node, key) ==
    IF GetObj(node, key) # NoneObj THEN Get(GetObj(node, key), "name") ELSE None

\* [p.get('name') for p in node.get('params', []) if isinstance(p, dict) and p.get('name')]
ParamNames(node) ==
    LET params == IF "params" \in DOMAIN node THEN node.params ELSE <<>>
        named == SelectSeq(params, LAMBDA p : Truthy(Get(p, "name")))
    IN [i \in 1..Len(named) |-> Get(named[i], "name")]

\* One specifier of an import declaration as the import branch records it.
SpecifierInfo(spec) ==
    CASE spec.type = "ImportDefaultSpecifier" ->
            << [type |-> "default", local |-> NameOf(spec, "local")] >>
      [] spec.type = "ImportSpecifier" ->
            << [type |-> "named", imported |-> NameOf(spec, "imported"),
                local |-> NameOf(spec, "local")] >>
      [] spec.type = "ImportNamespaceSpecifier" ->
            << [type |-> "namespace", local |-> NameOf(spec, "local")] >>
      [] OTHER -> << >>

RECURSIVE SpecifierInfos(_)
SpecifierInfos(specs) ==
    IF Len(specs) = 0 THEN << >>
    ELSE SpecifierInfo(Head(specs)) \o SpecifierInfos(Tail(specs))

\* Mutant of Collected: only the first declarator of a declaration is recorded.
Collected_first_declarator(node, target_type) ==
    IF target_type = "variable" /\ node.type = "VariableDeclaration"
       /\ Len(node.declarations) > 0
    THEN << [kind |-> Get(node, "kind"), name |-> NameOf(node.declarations[1], "id")] >>
    ELSE << >>

\* What _traverse_ast appends to results at one node, before it descends.
Collected(node, target_type) ==
    LET node_type == node.type IN
    CASE target_type = "function" /\ node_type \in {"FunctionDeclaration", "FunctionExpression"} ->
            << [type |-> node_type, name |-> NameOf(node, "id"), params |-> ParamNames(node),
                async |-> GetFlag(node, "async"), generator |-> GetFlag(node, "generator")] >>
      [] target_type = "function" /\ node_type = "ArrowFunctionExpression" ->
            << [type |-> node_type, name |-> None, params |-> ParamNames(node),
                async |-> GetFlag(node, "async")] >>
      [] target_type = "variable" /\ node_type = "VariableDeclaration" ->
            [i \in 1..Len(node.declarations) |->
                [kind |-> Get(node, "kind"), name |-> NameOf(node.declarations[i], "id")]]
      [] target_type = "class" /\ node_type \in {"ClassDeclaration", "ClassExpression"} ->
            << [type |-> node_type, name |-> NameOf(node, "id"),
                superClass |-> NameOf(node, "superClass")] >>
      [] target_type = "import" /\ node_type = "ImportDeclaration" ->
            << [source |-> Get(GetObj(node, "source"), "value"),
                specifiers |-> SpecifierInfos(node.specifiers)] >>
      [] target_type = "export" /\ node_type \in {"ExportDefaultDeclaration",
                                                  "ExportNamedDeclaration",
                                                  "ExportAllDeclaration"} ->
            << [type |-> node_type,
                source |-> IF GetObj(node, "source") # NoneObj
                           THEN Get(node.source, "value") ELSE None] >>
      [] OTHER -> << >>

\* The recursion every traversal ends with: the dict values of node and the dict
\* items of its list values, in the order of `for key, value in node.items()`.
RECURSIVE ChildrenFrom(_, _)
ChildrenFrom(node, k) ==
    IF k > Len(node.keys) THEN << >>
    ELSE LET value == node[node.keys[k]] IN
         (IF node.keys[k] \in node.lists THEN value
          ELSE IF value = NoneObj THEN << >>
          ELSE <<value>>) \o ChildrenFrom(node, k + 1)
Children(node) == ChildrenFrom(node, 1)

\* Mutant of _traverse_ast: a node is recorded after its children.
RECURSIVE _traverse_ast_postorder(_, _)
_traverse_ast_postorder(node, target_type) ==
    LET RECURSIVE Each(_)
        Each(items) ==
            IF Len(items) = 0 THEN << >>
            ELSE _traverse_ast_postorder(Head(items), target_type) \o Each(Tail(items))
    IN Each(Children(node)) \o Collected(node, target_type)

\* _traverse_ast(node, results, target_type): what the call appends to results.
RECURSIVE _traverse_ast(_, _)
_traverse_ast(node, target_type) ==
    LET RECURSIVE Each(_)
        Each(items) ==
            IF Len(items) = 0 THEN << >>
            ELSE _traverse_ast(Head(items), target_type) \o Each(Tail(items))
    IN Collected(node, target_type) \o Each(Children(node))

\* _collect_identifiers(node, identifiers): the names the call adds to the set.
RECURSIVE _collect_identifiers(_)
_collect_identifiers(node) ==
    (IF node.type = "Identifier" /\ Truthy(Get(node, "name")) THEN {node.name} ELSE {})
    \cup UNION {_collect_identifiers(Children(node)[i]) : i \in 1..Len(Children(node))}

\* Whether text sub occurs in text s (Python's `sub in s`).
Contains(s, sub) ==
    \E i \in 1..(Len(s) - Len(sub) + 1) : SubSeq(s, i, i + Len(sub) - 1) = sub

\* s.count(ch) for a one-character ch.
RECURSIVE Count(_, _)
Count(s, ch) ==
    IF Len(s) = 0 THEN 0
    ELSE (IF SubSeq(s, 1, 1) = ch THEN 1 ELSE 0) + Count(SubSeq(s, 2, Len(s)), ch)

\* Mutant of _count_statements: the count stops at the children of the node.
_count_statements_flat(node) ==
    (IF Contains(node.type, "Statement") THEN 1 ELSE 0)
    + Cardinality({i \in 1..Len(Children(node)) :
                      Contains(Children(node)[i].type, "Statement")})

RECURSIVE _count_statements(_)
_count_statements(node) ==
    LET RECURSIVE Each(_)
        Each(items) ==
            IF Len(items) = 0 THEN 0 ELSE _count_statements(Head(items)) + Each(Tail(items))
    IN (IF Contains(node.type, "Statement") THEN 1 ELSE 0) + Each(Children(node))

RECURSIVE _count_loops(_)
_count_loops(node) ==
    LET RECURSIVE Each(_)
        Each(items) ==
            IF Len(items) = 0 THEN 0 ELSE _count_loops(Head(items)) + Each(Tail(items))
    IN (IF node.type \in {"ForStatement", "ForInStatement", "ForOfStatement",
                          "WhileStatement", "DoWhileStatement"} THEN 1 ELSE 0)
       + Each(Children(node))

RECURSIVE _count_conditionals(_)
_count_conditionals(node) ==
    LET RECURSIVE Each(_)
        Each(items) ==
            IF Len(items) = 0 THEN 0
            ELSE _count_conditionals(Head(items)) + Each(Tail(items))
    IN (IF node.type \in {"IfStatement", "ConditionalExpression", "SwitchStatement"}
        THEN 1 ELSE 0)
       + Each(Children(node))

Max(a, b) == IF a >= b THEN a ELSE b

RECURSIVE _calculate_depth(_, _)
_calculate_depth(node, current_depth) ==
    LET RECURSIVE Each(_, _)
        Each(items, max_depth) ==
            IF Len(items) = 0 THEN max_depth
            ELSE Each(Tail(items),
                      Max(max_depth, _calculate_depth(Head(items), current_depth + 1)))
    IN Each(Children(node), current_depth)

(***************************************************************************)
(* JSParser.  self is the object's fields [ast, source_code]; a call gives *)
(* the object after it, what it returned or raised, and log: the outcomes  *)
(* of the esprima parses made by self.parse and self.parse_module during   *)
(* the call, in order.                                                     *)
(***************************************************************************)
\* JSParser.__init__
NewParser == [ast |-> NoneObj, source_code |-> None]
parse_options == [jsx |-> FALSE, tolerant |-> TRUE, comment |-> FALSE]

Call(self, ret, log) == [self |-> self, ret |-> ret, log |-> log]
Raised(call) == call.ret.kind = "raise"

\* Mutant of parse: the cache is cleared on entry (self.ast = None before the try).
parse_resetting(self, code, jsx, tolerant) ==
    LET stored == [self EXCEPT !.source_code = code, !.ast = NoneObj]
        options == [parse_options EXCEPT !.jsx = jsx, !.tolerant = tolerant]
        script == esprima_parseScript(code, options)
        module == esprima_parseModule(code, options)
    IN IF script.ok
       THEN Call([stored EXCEPT !.ast = script.obj], Return(toDict(script.obj)), <<script>>)
       ELSE IF module.ok
       THEN Call([stored EXCEPT !.ast = module.obj], Return(toDict(module.obj)),
                 <<script, module>>)
       ELSE Call(stored, Raise("Failed to parse JavaScript: " \o script.err),
                 <<script, module>>)

\* Mutant of parse: a tree is stored only while the cache is empty.
parse_once(self, code, jsx, tolerant) ==
    LET stored == [self EXCEPT !.source_code = code]
        options == [parse_options EXCEPT !.jsx = jsx, !.tolerant = tolerant]
        script == esprima_parseScript(code, options)
        module == esprima_parseModule(code, options)
        keep(obj) == IF self.ast = NoneObj THEN [stored EXCEPT !.ast = obj] ELSE stored
    IN IF script.ok
       THEN Call(keep(script.obj), Return(toDict(script.obj)), <<script>>)
       ELSE IF module.ok
       THEN Call(keep(module.obj), Return(toDict(module.obj)), <<script, module>>)
       ELSE Call(stored, Raise("Failed to parse JavaScript: " \o script.err),
                 <<script, module>>)

\* Mutant of parse: the Module grammar is tried first, the Script grammar second.
parse_module_first(self, code, jsx, tolerant) ==
    LET stored == [self EXCEPT !.source_code = code]
        options == [parse_options EXCEPT !.jsx = jsx, !.tolerant = tolerant]
        script == esprima_parseScript(code, options)
        module == esprima_parseModule(code, options)
    IN IF module.ok
       THEN Call([stored EXCEPT !.ast = module.obj], Return(toDict(module.obj)), <<module>>)
       ELSE IF script.ok
       THEN Call([stored EXCEPT !.ast = script.obj], Return(toDict(script.obj)),
                 <<module, script>>)
       ELSE Call(stored, Raise("Failed to parse JavaScript: " \o script.err),
                 <<module, script>>)

parse(self, code, jsx, tolerant) ==
    LET stored == [self EXCEPT !.source_code = code]
        options == [parse_options EXCEPT !.jsx = jsx, !.tolerant = tolerant]
        script == esprima_parseScript(code, options)
        module == esprima_parseModule(code, options)
    IN IF script.ok
       THEN Call([stored EXCEPT !.ast = script.obj], Return(toDict(script.obj)), <<script>>)
       ELSE IF module.ok
       THEN Call([stored EXCEPT !.ast = module.obj], Return(toDict(module.obj)),
                 <<script, module>>)
       ELSE Call(stored, Raise("Failed to parse JavaScript: " \o script.err),
                 <<script, module>>)

parse_module(self, code, jsx) ==
    LET stored == [self EXCEPT !.source_code = code]
        options == [parse_options EXCEPT !.jsx = jsx]
        module == esprima_parseModule(code, options)
    IN IF module.ok
       THEN Call([stored EXCEPT !.ast = module.obj], Return(toDict(module.obj)), <<module>>)
       ELSE Call(stored, Raise(module.err), <<module>>)

tokenize(self, code) ==
    LET tokens == esprima_tokenize(code)
    IN IF tokens.ok THEN Call(self, Return(tokens.obj), << >>)
       ELSE Call(self, Raise(tokens.err), << >>)

\* `if code: self.parse(code)`
ParseGiven(self, code) ==
    IF Truthy(code) THEN parse(self, code, FALSE, TRUE)
    ELSE Call(self, Return(None), << >>)

\* `if code: try: self.parse_module(code) except: self.parse(code)`
ParseGivenAsModule(self, code) ==
    IF Truthy(code)
    THEN LET first == parse_module(self, code, FALSE)
             second == parse(first.self, code, FALSE, TRUE)
         IN IF ~Raised(first) THEN first
            ELSE Call(second.self, second.ret, first.log \o second.log)
    ELSE Call(self, Return(None), << >>)

\* Mutant of Traversed: the `if not self.ast` guard is missing, so toDict() is
\* called on None.
Traversed_unguarded(parsed, target_type) ==
    IF Raised(parsed) THEN parsed
    ELSE IF parsed.self.ast = NoneObj
    THEN Call(parsed.self, Raise("'NoneType' object has no attribute 'toDict'"), parsed.log)
    ELSE Call(parsed.self, Return(_traverse_ast(toDict(parsed.self.ast), target_type)),
              parsed.log)

\* `if not self.ast: return []`, then the traversal of self.ast.toDict().
Traversed(parsed, target_type) ==
    IF Raised(parsed) THEN parsed
    ELSE IF parsed.self.ast = NoneObj THEN Call(parsed.self, Return(<< >>), parsed.log)
    ELSE Call(parsed.self, Return(_traverse_ast(toDict(parsed.self.ast), target_type)),
              parsed.log)

extract_functions(self, code) == Traversed(ParseGiven(self, code), "function")
extract_variables(self, code) == Traversed(ParseGiven(self, code), "variable")
extract_classes(self, code) == Traversed(ParseGiven(self, code), "class")
extract_imports(self, code) == Traversed(ParseGivenAsModule(self, code), "import")
extract_exports(self, code) == Traversed(ParseGivenAsModule(self, code), "export")

get_all_identifiers(self, code) ==
    LET parsed == ParseGiven(self, code)
    IN IF Raised(parsed) THEN parsed
       ELSE IF parsed.self.ast = NoneObj THEN Call(parsed.self, Return({}), parsed.log)
       ELSE Call(parsed.self, Return(_collect_identifiers(toDict(parsed.self.ast))),
                 parsed.log)

\* The empty dict analyze_complexity returns without a tree.
EmptyDict == << >>

analyze_complexity(self, code) ==
    LET parsed == ParseGiven(self, code)
        ast_dict == toDict(parsed.self.ast)
    IN IF Raised(parsed) THEN parsed
       ELSE IF parsed.self.ast = NoneObj THEN Call(parsed.self, Return(EmptyDict), parsed.log)
       ELSE Call(parsed.self,
                 Return([functions |-> Len(extract_functions(parsed.self, None).ret.val),
                         variables |-> Len(extract_variables(parsed.self, None).ret.val),
                         classes |-> Len(extract_classes(parsed.self, None).ret.val),
                         lines |-> IF Truthy(code) THEN Count(code, "\n") + 1 ELSE 0,
                         statements |-> _count_statements(ast_dict),
                         loops |-> _count_loops(ast_dict),
                         conditionals |-> _count_conditionals(ast_dict),
                         depth |-> _calculate_depth(ast_dict, 0)]),
                 parsed.log)

\* Mutant of validate_syntax: the parse takes the walker's default options, which
\* are tolerant.
validate_syntax_tolerant(self, code) ==
    LET script == esprima_parseScript(code, parse_options)
    IN IF script.ok THEN Call(self, Return(<<TRUE, None>>), << >>)
       ELSE Call(self, Return(<<FALSE, script.err>>), << >>)

validate_syntax(self, code) ==
    LET script == esprima_parseScript(code, [tolerant |-> FALSE])
    IN IF script.ok THEN Call(self, Return(<<TRUE, None>>), << >>)
       ELSE Call(self, Return(<<FALSE, script.err>>), << >>)

\* Mutant of detect_module_type: the CommonJS markers are tested first.
detect_module_type_commonjs_first(code) ==
    LET has_require == Contains(code, "require(")
        has_module_exports == Contains(code, "module.exports") \/ Contains(code, "exports.")
        has_import == Contains(code, "import ") /\ Contains(code, " from ")
        has_export == Contains(code, "export ")
    IN IF has_require \/ has_module_exports THEN "commonjs"
       ELSE IF has_import \/ has_export THEN "es6"
       ELSE "none"

detect_module_type(code) ==
    LET has_require == Contains(code, "require(")
        has_module_exports == Contains(code, "module.exports") \/ Contains(code, "exports.")
        has_import == Contains(code, "import ") /\ Contains(code, " from ")
        has_export == Contains(code, "export ")
    IN IF has_import \/ has_export THEN "es6"
       ELSE IF has_require \/ has_module_exports THEN "commonjs"
       ELSE "none"

\* Mutant of extract_comments: the parse result is kept in self.ast.
extract_comments_caching(self, code) ==
    LET result == esprima_parseScript(code, [comment |-> TRUE])
    IN IF result.ok
       THEN Call([self EXCEPT !.ast = result.obj], Return(result.obj.comments), << >>)
       ELSE Call(self, Return(<< >>), << >>)

extract_comments(self, code) ==
    LET result == esprima_parseScript(code, [comment |-> TRUE])
    IN IF result.ok THEN Call(self, Return(result.obj.comments), << >>)
       ELSE Call(self, Return(<< >>), << >>)

\* str.strip('\'"'): the quote characters at both ends removed.
Quotes == {"'", "\""}
RECURSIVE strip(_)
strip(s) ==
    IF Len(s) > 0 /\ SubSeq(s, 1, 1) \in Quotes THEN strip(SubSeq(s, 2, Len(s)))
    ELSE IF Len(s) > 0 /\ SubSeq(s, Len(s), Len(s)) \in Quotes
    THEN strip(SubSeq(s, 1, Len(s) - 1))
    ELSE s

\* Mutant of Requires: the look-ahead stops one token early.
RECURSIVE Requires_short(_, _)
Requires_short(tokens, i) ==
    IF i > Len(tokens) THEN << >>
    ELSE LET last == IF i + 3 < Len(tokens) THEN i + 3 ELSE Len(tokens)
             strings == {j \in (i + 1)..last : tokens[j].type = "String"}
             first == CHOOSE j \in strings : \A k \in strings : j <= k
             value == strip(tokens[first].value)
         IN (IF tokens[i].type = "Identifier" /\ tokens[i].value = "require"
                /\ strings # {} /\ Truthy(value)
             THEN <<value>> ELSE << >>) \o Requires_short(tokens, i + 1)

\* The token loop of find_dependencies: what it appends to 'requires' from the
\* i-th token on.
RECURSIVE Requires(_, _)
Requires(tokens, i) ==
    IF i > Len(tokens) THEN << >>
    ELSE LET last == IF i + 4 < Len(tokens) THEN i + 4 ELSE Len(tokens)
             strings == {j \in (i + 1)..last : tokens[j].type = "String"}
             first == CHOOSE j \in strings : \A k \in strings : j <= k
             value == strip(tokens[first].value)
         IN (IF tokens[i].type = "Identifier" /\ tokens[i].value = "require"
                /\ strings # {} /\ Truthy(value)
             THEN <<value>> ELSE << >>) \o Requires(tokens, i + 1)

\* The dict find_dependencies builds from the import extractor's list and the
\* token list.
Dependencies(imports, tokens) ==
    [imports |-> [i \in 1..Len(imports) |-> imports[i].source],
     requires |-> Requires(tokens, 1)]

find_dependencies(self, code) ==
    LET imports == extract_imports(self, code)
        tokens == tokenize(imports.self, code)
    IN IF Raised(imports) THEN imports
       ELSE IF Raised(tokens) THEN Call(imports.self, tokens.ret, imports.log)
       ELSE Call(imports.self, Return(Dependencies(imports.ret.val, tokens.ret.val)),
                 imports.log)

\* json.dumps(tree, indent=indent): the text of the tree.
json_dumps(tree, indent) == ToString(<<indent, tree>>)

to_json(self, code, indent) ==
    LET parsed == ParseGiven(self, code)
    IN IF Raised(parsed) THEN parsed
       ELSE IF parsed.self.ast = NoneObj THEN Call(parsed.self, Return("{}"), parsed.log)
       ELSE Call(parsed.self, Return(json_dumps(toDict(parsed.self.ast), indent)),
                 parsed.log)

(***************************************************************************)
(* CSS text and tinycss2.  A text is the sequence of its tokens, each the  *)
(* characters of the token; a run of whitespace is one token.  A {} block  *)
(* is the tokens between its braces.                                       *)
(***************************************************************************)
IsWhitespace(t) == Len(t) > 0 /\ \A i \in 1..Len(t) : SubSeq(t, i, i) \in {" ", "\n", "\t"}
IsAtKeyword(t) == Len(t) > 1 /\ SubSeq(t, 1, 1) = "@"
IsIdent(t) ==
    /\ Len(t) > 0 /\ ~IsWhitespace(t) /\ ~IsAtKeyword(t)
    /\ SubSeq(t, 1, 1) \notin {"{", "}", ":", ";", ",", "!", "(", ")", "#", "\"", "."}

\* The tokens of pieces written one after another: whitespace next to
\* whitespace is one token.
RECURSIVE Text(_)
Text(pieces) ==
    IF Len(pieces) < 2 THEN pieces
    ELSE IF IsWhitespace(pieces[1]) /\ IsWhitespace(pieces[2])
    THEN Text(<<pieces[1] \o pieces[2]>> \o SubSeq(pieces, 3, Len(pieces)))
    ELSE <<pieces[1]>> \o Text(Tail(pieces))

\* str.lower()
UpperCase == "ABCDEFGHIJKLMNOPQRSTUVWXYZ"
LowerCase == "abcdefghijklmnopqrstuvwxyz"
RECURSIVE Lower(_)
Lower(s) ==
    IF Len(s) = 0 THEN ""
    ELSE LET c == SubSeq(s, 1, 1)
             at == {i \in 1..Len(UpperCase) : SubSeq(UpperCase, i, i) = c}
         IN (IF at = {} THEN c ELSE LET i == CHOOSE i \in at : TRUE
                                    IN SubSeq(LowerCase, i, i))
            \o Lower(SubSeq(s, 2, Len(s)))

\* str.strip() of a text: the whitespace at both ends removed.
RECURSIVE Stripped(_)
Stripped(text) ==
    IF Len(text) > 0 /\ IsWhitespace(text[1]) THEN Stripped(Tail(text))
    ELSE IF Len(text) > 0 /\ IsWhitespace(text[Len(text)])
    THEN Stripped(SubSeq(text, 1, Len(text) - 1))
    ELSE text

\* The position of the brace closing the block whose content starts at i, one
\* past the end when the text ends first.
RECURSIVE BlockEnd(_, _, _)
BlockEnd(tokens, i, depth) ==
    IF i > Len(tokens) THEN Len(tokens) + 1
    ELSE IF tokens[i] = "{" THEN BlockEnd(tokens, i + 1, depth + 1)
    ELSE IF tokens[i] = "}"
    THEN (IF depth = 1 THEN i ELSE BlockEnd(tokens, i + 1, depth - 1))
    ELSE BlockEnd(tokens, i + 1, depth)
\* The first position from i on, outside every block, of a token in stops; one
\* past the end when there is none.
RECURSIVE StopAt(_, _, _)
StopAt(tokens, i, stops) ==
    IF i > Len(tokens) THEN Len(tokens) + 1
    ELSE IF tokens[i] \in stops THEN i
    ELSE IF tokens[i] = "{" THEN StopAt(tokens, BlockEnd(tokens, i + 1, 1) + 1, stops)
    ELSE StopAt(tokens, i + 1, stops)

\* tinycss2.ast nodes; the keys of a record are the attributes hasattr finds.
\* The content of an at-rule that ends with ";" is None.
NoContent == <<"">>
QualifiedRule(prelude, content) ==
    [type |-> "qualified-rule", prelude |-> prelude, content |-> content]
AtRule(at_keyword, prelude, content) ==
    [type |-> "at-rule", at_keyword |-> at_keyword, lower_at_keyword |-> Lower(at_keyword),
     prelude |-> prelude, content |-> content]
WhitespaceToken(value) == [type |-> "whitespace", value |-> value]
ParseError(kind) == [type |-> "error", kind |-> kind]
Declaration(name, value, important) ==
    [type |-> "declaration", name |-> name, lower_name |-> Lower(name), value |-> value,
     important |-> important]
hasattr(node, attribute) == attribute \in DOMAIN node

\* The at-rule whose at-keyword is at position i, and the position after it.
ConsumeAtRule(tokens, i) ==
    LET stop == StopAt(tokens, i + 1, {";", "{"})
        keyword == SubSeq(tokens[i], 2, Len(tokens[i]))
        prelude == SubSeq(tokens, i + 1, stop - 1)
        end == BlockEnd(tokens, stop + 1, 1)
    IN IF stop <= Len(tokens) /\ tokens[stop] = "{"
       THEN [node |-> AtRule(keyword, prelude, SubSeq(tokens, stop + 1, end - 1)),
             next |-> end + 1]
       ELSE [node |-> AtRule(keyword, prelude, NoContent), next |-> stop + 1]

\* tinycss2.parse_stylesheet(tokens, skip_comments=True): the rules from i on.
RECURSIVE RulesFrom(_, _)
RulesFrom(tokens, i) ==
    IF i > Len(tokens) THEN << >>
    ELSE IF IsWhitespace(tokens[i])
    THEN <<WhitespaceToken(tokens[i])>> \o RulesFrom(tokens, i + 1)
    ELSE IF IsAtKeyword(tokens[i])
    THEN <<ConsumeAtRule(tokens, i).node>> \o RulesFrom(tokens, ConsumeAtRule(tokens, i).next)
    ELSE LET stop == StopAt(tokens, i, {"{"})
             end == BlockEnd(tokens, stop + 1, 1)
         IN IF stop > Len(tokens) THEN <<ParseError("invalid")>>
            ELSE <<QualifiedRule(SubSeq(tokens, i, stop - 1),
                                 SubSeq(tokens, stop + 1, end - 1))>>
                 \o RulesFrom(tokens, end + 1)
tinycss2_parse_stylesheet(tokens) == RulesFrom(tokens, 1)

\* The scan of a declaration's value for a trailing !important: the state after
\* the tokens from i on and the position of the "!" last taken for its start.
RECURSIVE ImportantScan(_, _, _, _)
ImportantScan(tokens, i, state, bang) ==
    IF i > Len(tokens) THEN [state |-> state, bang |-> bang]
    ELSE IF state = "value" /\ tokens[i] = "!" THEN ImportantScan(tokens, i + 1, "bang", i)
    ELSE IF state = "bang" /\ IsIdent(tokens[i]) /\ Lower(tokens[i]) = "important"
    THEN ImportantScan(tokens, i + 1, "important", bang)
    ELSE IF ~IsWhitespace(tokens[i]) THEN ImportantScan(tokens, i + 1, "value", bang)
    ELSE ImportantScan(tokens, i + 1, state, bang)

\* The declaration made of tokens, which end before the ";".
ParseDeclaration(tokens) ==
    LET after == IF Len(tokens) > 1 /\ IsWhitespace(tokens[2]) THEN 3 ELSE 2
        value == SubSeq(tokens, after + 1, Len(tokens))
        scan == ImportantScan(value, 1, "value", 0)
    IN IF ~IsIdent(tokens[1]) THEN ParseError("invalid")
       ELSE IF after > Len(tokens) \/ tokens[after] # ":" THEN ParseError("invalid")
       ELSE IF scan.state = "important"
       THEN Declaration(tokens[1], SubSeq(value, 1, scan.bang - 1), TRUE)
       ELSE Declaration(tokens[1], value, FALSE)

\* tinycss2.parse_declaration_list(tokens): the items from i on.
RECURSIVE DeclarationsFrom(_, _)
DeclarationsFrom(tokens, i) ==
    IF i > Len(tokens) THEN << >>
    ELSE IF IsWhitespace(tokens[i])
    THEN <<WhitespaceToken(tokens[i])>> \o DeclarationsFrom(tokens, i + 1)
    ELSE IF IsAtKeyword(tokens[i])
    THEN <<ConsumeAtRule(tokens, i).node>>
         \o DeclarationsFrom(tokens, ConsumeAtRule(tokens, i).next)
    ELSE IF tokens[i] = ";" THEN DeclarationsFrom(tokens, i + 1)
    ELSE LET stop == StopAt(tokens, i, {";"})
         IN <<ParseDeclaration(SubSeq(tokens, i, stop - 1))>>
            \o DeclarationsFrom(tokens, stop + 1)
tinycss2_parse_declaration_list(tokens) == DeclarationsFrom(tokens, 1)

\* Whether tinycss2.serialize can write the nodes: it raises TypeError for a
\* ParseError that is no token.
Serializable(nodes) == \A i \in 1..Len(nodes) : nodes[i].type # "error"
\* tinycss2.serialize(nodes) for rule nodes.
RECURSIVE SerializeRules(_)
SerializeRules(nodes) ==
    IF Len(nodes) = 0 THEN << >>
    ELSE LET node == Head(nodes) IN
         (IF node.type = "whitespace" THEN <<node.value>>
          ELSE IF node.type = "qualified-rule"
          THEN node.prelude \o <<"{">> \o node.content \o <<"}">>
          ELSE IF node.type = "at-rule" /\ node.content = NoContent
          THEN <<"@" \o node.at_keyword>> \o node.prelude \o <<";">>
          ELSE IF node.type = "at-rule"
          THEN <<"@" \o node.at_keyword>> \o node.prelude \o <<"{">> \o node.content \o <<"}">>
          ELSE << >>)
         \o SerializeRules(Tail(nodes))
\* tinycss2.serialize(tokens) for the tokens of a prelude or a value.
tinycss2_serialize(tokens) == tokens

(***************************************************************************)
(* CSSParser.  self is the object's fields [parsed_rules, stylesheet]; a   *)
(* call gives the object after it and what it returned or raised.          *)
(***************************************************************************)
\* CSSParser.__init__
NewCSSParser == [parsed_rules |-> << >>, stylesheet |-> << >>]
\* iter(None) in tinycss2.parse_declaration_list / parse_stylesheet, and
\* tinycss2.serialize of a ParseError.
TypeError == "TypeError"

parse_stylesheet(self, css_text) ==
    LET rules == tinycss2_parse_stylesheet(css_text)
    IN Call([parsed_rules |-> rules, stylesheet |-> rules], Return(rules), << >>)

\* _serialize_value(tokens)
_serialize_value(tokens) == Stripped(tinycss2_serialize(tokens))

\* The Declaration items of tinycss2.parse_declaration_list(rule.content).
DeclarationsOf(rule) ==
    SelectSeq(tinycss2_parse_declaration_list(rule.content),
              LAMBDA item : item.type = "declaration")
\* Whether a loop hands None to tinycss2: one of the rules passing its test has
\* None for content.
HandsNone(tested) ==
    \E i \in 1..Len(tested) : tested[i].content = NoContent

ColorProps == <<"color", "background", "border", "fill", "stroke">>
\* The colors one rule adds.
ColorsOf(rule) ==
    LET named == SelectSeq(DeclarationsOf(rule),
                     LAMBDA decl : \E k \in 1..Len(ColorProps) :
                                      Contains(Lower(decl.name), ColorProps[k]))
        valued == SelectSeq(named, LAMBDA decl : Len(_serialize_value(decl.value)) > 0)
    IN [i \in 1..Len(valued) |-> _serialize_value(valued[i].value)]
RECURSIVE ColorsOfRules(_)
ColorsOfRules(rules) ==
    IF Len(rules) = 0 THEN << >>
    ELSE (IF hasattr(Head(rules), "content") THEN ColorsOf(Head(rules)) ELSE << >>)
         \o ColorsOfRules(Tail(rules))
extract_colors(self, css_text) ==
    LET parsed == parse_stylesheet(self, css_text)
        rules == parsed.ret.val
    IN IF HandsNone(SelectSeq(rules, LAMBDA rule : hasattr(rule, "content")))
       THEN Call(parsed.self, Raise(TypeError), << >>)
       ELSE Call(parsed.self, Return(ColorsOfRules(rules)), << >>)

extract_selectors(self, css_text) ==
    LET parsed == parse_stylesheet(self, css_text)
        preluded == SelectSeq(parsed.ret.val, LAMBDA rule : hasattr(rule, "prelude"))
    IN Call(parsed.self,
            Return([i \in 1..Len(preluded) |-> tinycss2_serialize(preluded[i].prelude)]),
            << >>)

\* The list get_all_declarations builds for one rule.
DeclList(rule) ==
    [i \in 1..Len(DeclarationsOf(rule)) |->
        [property |-> DeclarationsOf(rule)[i].name,
         value |-> _serialize_value(DeclarationsOf(rule)[i].value),
         important |-> DeclarationsOf(rule)[i].important]]
\* The dict after the loop over rules, from the dict before it.
RECURSIVE DeclarationsBySelector(_, _)
DeclarationsBySelector(rules, result) ==
    IF Len(rules) = 0 THEN result
    ELSE LET rule == Head(rules)
             selector == Stripped(tinycss2_serialize(rule.prelude))
         IN IF hasattr(rule, "prelude") /\ hasattr(rule, "content")
            THEN DeclarationsBySelector(Tail(rules),
                     IF selector \in DOMAIN result
                     THEN [result EXCEPT ![selector] = @ \o DeclList(rule)]
                     ELSE result @@ (selector :> DeclList(rule)))
            ELSE DeclarationsBySelector(Tail(rules), result)
get_all_declarations(self, css_text) ==
    LET parsed == parse_stylesheet(self, css_text)
        rules == parsed.ret.val
    IN IF HandsNone(SelectSeq(rules, LAMBDA rule : hasattr(rule, "prelude") /\ hasattr(rule, "content")))
       THEN Call(parsed.self, Raise(TypeError), << >>)
       ELSE Call(parsed.self, Return(DeclarationsBySelector(rules, << >>)), << >>)

\* The dict parse_media_queries builds for one media rule.
MediaQuery(rule) ==
    LET nested == SelectSeq(tinycss2_parse_stylesheet(rule.content),
                            LAMBDA n : hasattr(n, "prelude"))
    IN [condition |-> Stripped(tinycss2_serialize(rule.prelude)),
        rules |-> [i \in 1..Len(nested) |-> Stripped(tinycss2_serialize(nested[i].prelude))]]
IsMedia(rule) == hasattr(rule, "at_keyword") /\ rule.at_keyword = "media"
parse_media_queries(self, css_text) ==
    LET parsed == parse_stylesheet(self, css_text)
        media == SelectSeq(parsed.ret.val, IsMedia)
    IN IF HandsNone(SelectSeq(parsed.ret.val, IsMedia))
       THEN Call(parsed.self, Raise(TypeError), << >>)
       ELSE Call(parsed.self, Return([i \in 1..Len(media) |-> MediaQuery(media[i])]), << >>)

minify_css(self, css_text) ==
    LET parsed == parse_stylesheet(self, css_text)
    IN IF Serializable(parsed.ret.val)
       THEN Call(parsed.self, Return(Text(SerializeRules(parsed.ret.val))), << >>)
       ELSE Call(parsed.self, Raise(TypeError), << >>)

\* Mutant of DeclarationLines: the important marker is never written.
RECURSIVE DeclarationLines_unmarked(_, _)
DeclarationLines_unmarked(declarations, indent) ==
    IF Len(declarations) = 0 THEN << >>
    ELSE LET decl == Head(declarations)
         IN << (IF indent = "" THEN << >> ELSE <<indent>>)
               \o <<decl.name, ":", " ">> \o _serialize_value(decl.value) \o <<";">> >>
            \o DeclarationLines_unmarked(Tail(declarations), indent)
\* The lines prettify_css appends for the declarations of a rule.
RECURSIVE DeclarationLines(_, _)
DeclarationLines(declarations, indent) ==
    IF Len(declarations) = 0 THEN << >>
    ELSE LET decl == Head(declarations)
             important == IF decl.important THEN <<" ", "!", "important">> ELSE << >>
         IN << (IF indent = "" THEN << >> ELSE <<indent>>)
               \o <<decl.name, ":", " ">> \o _serialize_value(decl.value)
               \o important \o <<";">> >>
            \o DeclarationLines(Tail(declarations), indent)
\* The lines prettify_css appends for the rules.
RECURSIVE PrettyLines(_, _)
PrettyLines(rules, indent) ==
    IF Len(rules) = 0 THEN << >>
    ELSE LET rule == Head(rules) IN
         (IF hasattr(rule, "prelude") /\ hasattr(rule, "content")
          THEN << Stripped(tinycss2_serialize(rule.prelude)) \o <<" ", "{">> >>
               \o DeclarationLines(DeclarationsOf(rule), indent)
               \o << <<"}", "\n">> >>
          ELSE IF hasattr(rule, "at_keyword")
          THEN << SerializeRules(<<rule>>) \o <<"\n">> >>
          ELSE << >>)
         \o PrettyLines(Tail(rules), indent)
\* "\n".join(lines)
RECURSIVE JoinLines(_)
JoinLines(lines) ==
    IF Len(lines) = 0 THEN << >>
    ELSE IF Len(lines) = 1 THEN lines[1]
    ELSE lines[1] \o <<"\n">> \o JoinLines(Tail(lines))
prettify_css(self, css_text, indent) ==
    LET parsed == parse_stylesheet(self, css_text)
        rules == parsed.ret.val
    IN IF HandsNone(SelectSeq(rules, LAMBDA rule : hasattr(rule, "prelude") /\ hasattr(rule, "content")))
       THEN Call(parsed.self, Raise(TypeError), << >>)
       ELSE Call(parsed.self, Return(Text(JoinLines(PrettyLines(rules, indent)))), << >>)

\* Mutant of PropertiesOf: the property name is compared as written.
PropertiesOf_exact_case(rule, property_name) ==
    LET named == SelectSeq(DeclarationsOf(rule), LAMBDA decl : decl.name = property_name)
    IN [i \in 1..Len(named) |->
           <<tinycss2_serialize(rule.prelude), _serialize_value(named[i].value)>>]
\* The (selector, value) pairs one rule adds.
PropertiesOf(rule, property_name) ==
    LET named == SelectSeq(DeclarationsOf(rule),
                     LAMBDA decl : Lower(decl.name) = Lower(property_name))
    IN [i \in 1..Len(named) |->
           <<tinycss2_serialize(rule.prelude), _serialize_value(named[i].value)>>]
RECURSIVE PropertiesOfRules(_, _)
PropertiesOfRules(rules, property_name) ==
    IF Len(rules) = 0 THEN << >>
    ELSE (IF hasattr(Head(rules), "prelude") /\ hasattr(Head(rules), "content")
          THEN PropertiesOf(Head(rules), property_name) ELSE << >>)
         \o PropertiesOfRules(Tail(rules), property_name)
extract_properties(self, css_text, property_name) ==
    LET parsed == parse_stylesheet(self, css_text)
        rules == parsed.ret.val
    IN IF HandsNone(SelectSeq(rules, LAMBDA rule : hasattr(rule, "prelude") /\ hasattr(rule, "content")))
       THEN Call(parsed.self, Raise(TypeError), << >>)
       ELSE Call(parsed.self, Return(PropertiesOfRules(rules, property_name)), << >>)

\* Whether the value of a declaration holds a {} block after another token
\* that is not whitespace: from tinycss2 1.3 on such a declaration is a
\* ParseError ("Declaration contains {} block"), before it is a Declaration.
RECURSIVE BlockAfterValue(_, _, _)
BlockAfterValue(value, i, valued) ==
    IF i > Len(value) THEN FALSE
    ELSE IF value[i] = "{"
    THEN valued \/ BlockAfterValue(value, BlockEnd(value, i + 1, 1) + 1, TRUE)
    ELSE BlockAfterValue(value, i + 1, valued \/ ~IsWhitespace(value[i]))
\* The tinycss2 the program runs with: no version is required by the
\* repository.
Builds == {"tinycss2 < 1.3", "tinycss2 >= 1.3"}
\* tinycss2.parse_declaration_list(tokens) of a build.
ParsedBy(build, tokens) ==
    LET items == tinycss2_parse_declaration_list(tokens)
    IN [i \in 1..Len(items) |->
           IF /\ build = "tinycss2 >= 1.3"
              /\ items[i].type = "declaration"
              /\ BlockAfterValue(items[i].value, 1, FALSE)
           THEN ParseError("invalid")
           ELSE items[i]]
\* validate_color; the bare except turns whatever is raised into False.
validate_color(self, color, build) ==
    LET tokens == ParsedBy(build, Text(<<"color", ":", " ">> \o color))
    IN Call(self, Return(Len(tokens) > 0), << >>)

(***************************************************************************)
(* BrowserTab.  self is the record of the tab's fields; history_index      *)
(* counts from 0 as in the code, so the current entry is                   *)
(* history[history_index + 1].  What html_widget shows is not kept: a call *)
(* of html_widget.load_url either goes through or raises.                  *)
(***************************************************************************)
\* The text of s before the first sep, all of s when sep is not in it.
RECURSIVE BeforeFirst(_, _)
BeforeFirst(s, sep) ==
    IF Len(s) < Len(sep) THEN s
    ELSE IF SubSeq(s, 1, Len(sep)) = sep THEN ""
    ELSE SubSeq(s, 1, 1) \o BeforeFirst(SubSeq(s, 2, Len(s)), sep)
\* The text of s after the first sep, for a sep that is in s.
RECURSIVE AfterFirst(_, _)
AfterFirst(s, sep) ==
    IF SubSeq(s, 1, Len(sep)) = sep THEN SubSeq(s, Len(sep) + 1, Len(s))
    ELSE AfterFirst(SubSeq(s, 2, Len(s)), sep)
\* urllib.parse.unquote for the escapes of ":" and "/".
RECURSIVE unquote(_)
unquote(s) ==
    IF Len(s) = 0 THEN ""
    ELSE IF Len(s) >= 3 /\ SubSeq(s, 1, 3) = "%3A" THEN ":" \o unquote(SubSeq(s, 4, Len(s)))
    ELSE IF Len(s) >= 3 /\ SubSeq(s, 1, 3) = "%2F" THEN "/" \o unquote(SubSeq(s, 4, Len(s)))
    ELSE SubSeq(s, 1, 1) \o unquote(SubSeq(s, 2, Len(s)))
\* parse_qs(urlparse(url).query): the first value of uddg, "" when the query has
\* none (parse_qs leaves out blank values).
Uddg(url) ==
    LET query == IF Contains(url, "?") THEN "&" \o BeforeFirst(AfterFirst(url, "?"), "#")
                 ELSE ""
    IN IF Contains(query, "&uddg=") THEN BeforeFirst(AfterFirst(query, "&uddg="), "&")
       ELSE ""
IsRedirect(url) == Contains(url, "duckduckgo.com/l/?uddg=")
\* domain[:25] + "..." if len(domain) > 25 else domain, for the domain of url.
TitleOf(url) ==
    LET domain == IF Contains(url, "//") THEN BeforeFirst(AfterFirst(url, "//"), "/")
                  ELSE SubSeq(url, 1, IF Len(url) < 30 THEN Len(url) ELSE 30)
    IN IF Len(domain) > 25 THEN SubSeq(domain, 1, 25) \o "..." ELSE domain

\* The history after a navigation to url seen by _on_url_changed.
Navigated(self, url) ==
    IF self.history_index = Len(self.history) - 1
    THEN [self EXCEPT !.history = Append(self.history, url),
                      !.history_index = Len(self.history)]
    ELSE IF self.history_index < Len(self.history) - 1
    THEN [self EXCEPT !.history = Append(SubSeq(self.history, 1, self.history_index + 1), url),
                      !.history_index = self.history_index + 1]
    ELSE self
\* _on_url_changed(url); fails: html_widget.load_url raises.
_on_url_changed(self, url, fails) ==
    IF url # "" /\ url # self.current_url /\ url # "about:blank"
    THEN IF IsRedirect(url) /\ Uddg(url) # "" /\ ~fails
         THEN self
         ELSE [Navigated(self, url) EXCEPT !.current_url = url, !._last_checked_url = url,
                                           !.title = TitleOf(url)]
    ELSE self

\* _check_url_change_fallback; new_url is what html_widget.get_url() gives ("" when
\* it gives nothing).  after lists the callbacks handed to parent_frame.after.
_check_url_change_fallback(self, new_url, fails) ==
    IF self._check_pending THEN [self |-> self, after |-> << >>]
    ELSE IF self.is_showing_web
    THEN LET seen == IF /\ new_url # "" /\ new_url # self._last_checked_url
                        /\ new_url # "about:blank"
                     THEN _on_url_changed([self EXCEPT !._check_pending = TRUE], new_url, fails)
                     ELSE self
         IN [self |-> [seen EXCEPT !._check_pending = FALSE], after |-> <<"_delayed_check">>]
    ELSE [self |-> [self EXCEPT !._check_pending = FALSE], after |-> << >>]
_delayed_check(self, new_url, fails) ==
    IF self.is_showing_web
    THEN _check_url_change_fallback([self EXCEPT !._check_pending = FALSE], new_url, fails)
    ELSE [self |-> [self EXCEPT !._check_pending = FALSE], after |-> << >>]

\* load_url(url); fails: loading the page into html_widget raises.
load_url(self, url, fails) ==
    LET target == IF IsRedirect(url) /\ Uddg(url) # "" THEN unquote(Uddg(url)) ELSE url
        shown == [self EXCEPT !.current_url = target,
                              !.history = Append(self.history, target),
                              !.history_index = Len(self.history),
                              !.title = TitleOf(target),
                              !.is_showing_web = TRUE]
    IN IF fails THEN [self |-> shown, ret |-> Return(FALSE), after |-> << >>]
       ELSE [self |-> [shown EXCEPT !._last_checked_url = target, !._check_pending = FALSE],
             ret |-> Return(TRUE),
             after |-> <<"_check_url_change_fallback">>]

\* Mutant of go_back: the test of history_index is left out.
go_back_unguarded(self, fails) ==
    IF self.is_showing_web
    THEN LET index == self.history_index - 1
             url == IF index + 1 \in DOMAIN self.history THEN self.history[index + 1]
                    ELSE self.current_url
         IN [self EXCEPT !.history_index = index, !.current_url = url]
    ELSE self
go_back(self, fails) ==
    IF self.is_showing_web /\ self.history_index > 0
    THEN LET url == self.history[self.history_index]
         IN [self EXCEPT !.history_index = self.history_index - 1,
                         !.current_url = url,
                         !.title = IF fails THEN self.title ELSE TitleOf(url)]
    ELSE self
\* Mutant of go_forward: the step lands on the last entry.
go_forward_to_last(self, fails) ==
    IF self.is_showing_web /\ self.history_index < Len(self.history) - 1
    THEN [self EXCEPT !.history_index = Len(self.history) - 1,
                      !.current_url = self.history[Len(self.history)]]
    ELSE self
go_forward(self, fails) ==
    IF self.is_showing_web /\ self.history_index < Len(self.history) - 1
    THEN LET url == self.history[self.history_index + 2]
         IN [self EXCEPT !.history_index = self.history_index + 1,
                         !.current_url = url,
                         !.title = IF fails THEN self.title ELSE TitleOf(url)]
    ELSE self
\* reload loads current_url into html_widget again: no field changes.
reload(self) == self

(***************************************************************************)
(* MiiBrowser's tabs.  self.tabs and self.tab_buttons are the keys of the  *)
(* dicts in the order they were put in; shown holds the tabs whose content *)
(* frame is packed.  The texts and colours of the widgets are left out.    *)
(***************************************************************************)
\* active_tab_id is None
NoTab == 0
Keys(dict) == {dict[i] : i \in 1..Len(dict)}
Without(dict, key) == SelectSeq(dict, LAMBDA k : k # key)
IndexOf(dict, key) == CHOOSE i \in 1..Len(dict) : dict[i] = key
_switch_tab(self, tab_id) ==
    IF tab_id \notin Keys(self.tabs) THEN self
    ELSE LET hidden == IF self.active_tab_id # NoTab /\ self.active_tab_id \in Keys(self.tabs)
                       THEN self.shown \ {self.active_tab_id} ELSE self.shown
         IN [self EXCEPT !.active_tab_id = tab_id, !.shown = hidden \cup {tab_id}]
_create_new_tab(self) ==
    LET tab_id == self.next_tab_id
    IN _switch_tab([self EXCEPT !.next_tab_id = tab_id + 1,
                                !.tabs = Append(self.tabs, tab_id),
                                !.tab_buttons = Append(self.tab_buttons, tab_id)],
                   tab_id)
\* Mutant of _close_tab: the last tab is closed like any other.
_close_tab_even_last(self, tab_id) ==
    IF tab_id \notin Keys(self.tabs) THEN self
    ELSE LET closed == [self EXCEPT !.shown = self.shown \ {tab_id},
                                    !.tabs = Without(self.tabs, tab_id),
                                    !.tab_buttons = Without(self.tab_buttons, tab_id)]
         IN IF self.active_tab_id = tab_id /\ Len(closed.tabs) > 0
            THEN _switch_tab(closed, closed.tabs[1])
            ELSE closed
_close_tab(self, tab_id) ==
    IF tab_id \notin Keys(self.tabs) THEN self
    ELSE IF Len(self.tabs) = 1 THEN self
    ELSE LET closed == [self EXCEPT !.shown = self.shown \ {tab_id},
                                    !.tabs = Without(self.tabs, tab_id),
                                    !.tab_buttons = Without(self.tab_buttons, tab_id)]
         IN IF self.active_tab_id = tab_id
            THEN _switch_tab(closed, closed.tabs[1])
            ELSE closed
_close_active_tab(self) ==
    IF self.active_tab_id # NoTab THEN _close_tab(self, self.active_tab_id) ELSE self
_next_tab(self) ==
    IF self.active_tab_id = NoTab THEN self
    ELSE _switch_tab(self, self.tabs[(IndexOf(self.tabs, self.active_tab_id) % Len(self.tabs)) + 1])
_previous_tab(self) ==
    IF self.active_tab_id = NoTab THEN self
    ELSE _switch_tab(self,
                     self.tabs[((IndexOf(self.tabs, self.active_tab_id) - 2) % Len(self.tabs)) + 1])

(***************************************************************************)
(* The state: one JSParser and the last call made on it; a second JSParser *)
(* called alongside it; two threads inside extract_functions on the first; *)
(* and the argument of the pure functions.                                 *)
(***************************************************************************)
VARIABLES
    parser,        \* the JSParser: [ast, source_code]
    result,        \* what the last call on parser returned or raised
    call,          \* the last call on parser: its method and arguments
    before,        \* the fields of parser when the last call was made
    cached,        \* the object of the most recent esprima parse that succeeded
                   \* inside self.parse / self.parse_module (NoneObj: none yet)
    other,         \* a second JSParser
    other_result,  \* what the last call on other returned or raised
    pc,            \* per thread: where it is inside extract_functions(code)
    targ,          \* per thread: the code argument of its call
    tret,          \* per thread: what its call returned or raised
    writer,        \* the thread whose parse last stored a tree in parser.ast
    saw,           \* per thread: the writer when the thread traversed parser.ast
    input,         \* the text, or the tokens and imports, a pure function is given
    css,           \* the CSSParser: [parsed_rules, stylesheet]
    css_call,      \* the last call on css: its method, its text, and the methods
                   \* whose results the text came through
    css_result,    \* what the last call on css returned or raised
    css_pc,        \* per thread: where it is inside extract_selectors(css_text) on css
    css_arg,       \* per thread: the css_text argument of its call
    css_rules,     \* per thread: the rule list parse_stylesheet returned to it
    css_ret,       \* per thread: what its call returned
    tab,           \* the BrowserTab: its fields
    tab_trail,     \* the last two calls on tab, latest first: the last with the
                   \* fields of tab when it was made, the one before with where
                   \* tab stood in its history
    timers,        \* the callbacks parent_frame.after has pending, in the order set
    browser,       \* the MiiBrowser: tabs, tab_buttons, active_tab_id, next_tab_id
    browser_call   \* the last call on browser

walker == <<parser, result, call, before, cached>>
pair == <<other, other_result>>
threads == <<pc, targ, tret, writer, saw>>
pure == <<input>>
styles == <<css, css_call, css_result>>
racing == <<css_pc, css_arg, css_rules, css_ret>>
gui == <<tab, tab_trail, timers, browser, browser_call>>
vars == <<walker, pair, threads, pure, styles, racing, gui>>

Threads == {"A", "B"}
NoCall == [op |-> "__init__", code |-> None, jsx |-> FALSE, tolerant |-> TRUE, indent |-> 2]
CallOf(op, code) == [NoCall EXCEPT !.op = op, !.code = code]

InitWalker ==
    /\ parser = NewParser
    /\ result = Return(None)
    /\ call = NoCall
    /\ before = NewParser
    /\ cached = NoneObj
InitPair ==
    /\ other = NewParser
    /\ other_result = Return(None)
InitThreads ==
    /\ pc = [t \in Threads |-> "idle"]
    /\ targ = [t \in Threads |-> None]
    /\ tret = [t \in Threads |-> Return(None)]
    /\ writer = None
    /\ saw = [t \in Threads |-> None]
InitPure == input = ""
NoCssCall == [op |-> "__init__", css_text |-> << >>, chain |-> << >>]
InitStyles ==
    /\ css = NewCSSParser
    /\ css_call = NoCssCall
    /\ css_result = Return(None)

InitRacing ==
    /\ css_pc = [t \in Threads |-> "idle"]
    /\ css_arg = [t \in Threads |-> << >>]
    /\ css_rules = [t \in Threads |-> << >>]
    /\ css_ret = [t \in Threads |-> Return(None)]
\* BrowserTab.__init__ with tkinterweb at hand.
NewTab ==
    [title |-> "New Tab", current_url |-> "", is_showing_web |-> FALSE, history |-> << >>,
     history_index |-> -1, _last_checked_url |-> None, _check_pending |-> FALSE]
\* MiiBrowser.__init__ up to its call of _create_new_tab; tabs and tab_buttons
\* are the keys of the dicts in the order they were put in, shown the tabs
\* whose content frame is packed.
NewBrowser ==
    [tabs |-> << >>, tab_buttons |-> << >>, active_tab_id |-> NoTab, next_tab_id |-> 1,
     shown |-> {}]
NoBrowserCall == [op |-> "__init__", tab_id |-> NoTab, before |-> NewBrowser]
InitGui ==
    /\ tab = NewTab
    /\ tab_trail = << >>
    /\ timers = << >>
    /\ browser = _create_new_tab(NewBrowser)
    /\ browser_call = NoBrowserCall
Init == InitWalker /\ InitPair /\ InitThreads /\ InitPure /\ InitStyles /\ InitRacing /\ InitGui

\* The object the most recent successful parse of log stored, else the earlier one.
RECURSIVE LastStored(_, _)
LastStored(log, earlier) ==
    IF Len(log) = 0 THEN earlier
    ELSE LastStored(Tail(log), IF Head(log).ok THEN Head(log).obj ELSE earlier)

\* A call on parser takes effect.
Does(c, made) ==
    /\ parser' = c.self
    /\ result' = c.ret
    /\ call' = made
    /\ before' = parser
    /\ cached' = LastStored(c.log, cached)
    /\ UNCHANGED <<pair, threads, pure, styles, racing, gui>>

\* The code argument of a method that takes one, and of one that may omit it.
Given == Sources \cup {None}

Parse ==
    \E code \in Sources, jsx \in BOOLEAN, tolerant \in BOOLEAN :
        Does(parse(parser, code, jsx, tolerant),
             [CallOf("parse", code) EXCEPT !.jsx = jsx, !.tolerant = tolerant])
ParseModule ==
    \E code \in Sources, jsx \in BOOLEAN :
        Does(parse_module(parser, code, jsx),
             [CallOf("parse_module", code) EXCEPT !.jsx = jsx])
Tokenize ==
    \E code \in Sources : Does(tokenize(parser, code), CallOf("tokenize", code))
ExtractFunctions ==
    \E code \in Given :
        Does(extract_functions(parser, code), CallOf("extract_functions", code))
ExtractVariables ==
    \E code \in Given :
        Does(extract_variables(parser, code), CallOf("extract_variables", code))
ExtractClasses ==
    \E code \in Given :
        Does(extract_classes(parser, code), CallOf("extract_classes", code))
ExtractImports ==
    \E code \in Given :
        Does(extract_imports(parser, code), CallOf("extract_imports", code))
ExtractExports ==
    \E code \in Given :
        Does(extract_exports(parser, code), CallOf("extract_exports", code))
GetAllIdentifiers ==
    \E code \in Given :
        Does(get_all_identifiers(parser, code), CallOf("get_all_identifiers", code))
AnalyzeComplexity ==
    \E code \in Given :
        Does(analyze_complexity(parser, code), CallOf("analyze_complexity", code))
ValidateSyntax ==
    \E code \in Sources :
        Does(validate_syntax(parser, code), CallOf("validate_syntax", code))
DetectModuleType ==
    \E code \in Sources :
        Does(Call(parser, Return(detect_module_type(code)), << >>),
             CallOf("detect_module_type", code))
ExtractComments ==
    \E code \in Sources :
        Does(extract_comments(parser, code), CallOf("extract_comments", code))
FindDependencies ==
    \E code \in Sources :
        Does(find_dependencies(parser, code), CallOf("find_dependencies", code))
ToJson ==
    \E code \in Given, indent \in {0, 2} :
        Does(to_json(parser, code, indent),
             [CallOf("to_json", code) EXCEPT !.indent = indent])

Next ==
    \/ Parse
    \/ ParseModule
    \/ Tokenize
    \/ ExtractFunctions
    \/ ExtractVariables
    \/ ExtractClasses
    \/ ExtractImports
    \/ ExtractExports
    \/ GetAllIdentifiers
    \/ AnalyzeComplexity
    \/ ValidateSyntax
    \/ DetectModuleType
    \/ ExtractComments
    \/ FindDependencies
    \/ ToJson

Spec == Init /\ [][Next]_vars

(***************************************************************************)
(* Properties of one JSParser under any sequence of calls (Spec)           *)
(***************************************************************************)
\* The target a traversal extractor passes to _traverse_ast.
TargetOf(op) ==
    CASE op = "extract_functions" -> "function"
      [] op = "extract_variables" -> "variable"
      [] op = "extract_classes" -> "class"
      [] op = "extract_imports" -> "import"
      [] op = "extract_exports" -> "export"
TraversalOps ==
    {"extract_functions", "extract_variables", "extract_classes", "extract_imports",
     "extract_exports"}
OmitsCode == call.code = None

\* C1: after any sequence of calls the cached tree is the tree of the most recent
\* parse that succeeded inside parse / parse_module (failed parses and calls
\* that do not parse into the cache leave it alone), and an extractor called
\* without code returns the extraction of that tree.
C1_CacheIsLastSuccessfulParse ==
    /\ parser.ast = cached
    /\ (OmitsCode /\ call.op \in TraversalOps /\ cached # NoneObj) =>
           result = Return(_traverse_ast(toDict(cached), TargetOf(call.op)))
    /\ (OmitsCode /\ call.op = "get_all_identifiers" /\ cached # NoneObj) =>
           (result.kind = "return" /\ result.val = _collect_identifiers(toDict(cached)))
\* C1 witness: a tree was cached, a later parse failed (source_code is the
\* failing text), and extract_functions() still lists the two functions.
C1_Witness ==
    /\ call = CallOf("extract_functions", None)
    /\ parser.source_code = SrcInvalid
    /\ result.kind = "return"
    /\ Len(result.val) = 2

\* C2: while no parse has succeeded, each of the eight methods called without
\* code returns its empty value and does not raise.
C2_EmptyBeforeAnyParse ==
    (cached = NoneObj /\ OmitsCode) =>
        /\ call.op \in TraversalOps => result = Return(<< >>)
        /\ call.op = "get_all_identifiers" => (result.kind = "return" /\ result.val = {})
        /\ call.op = "analyze_complexity" => result = Return(EmptyDict)
        /\ call.op = "to_json" => result = Return("{}")
\* C2 witness: to_json() after a failed parse attempt and no successful one.
C2_Witness ==
    /\ cached = NoneObj
    /\ parser.source_code = SrcInvalid
    /\ call.op = "to_json"
    /\ OmitsCode
    /\ result = Return("{}")

\* C3: parse(code) returns and caches the Script tree when the Script attempt
\* succeeds, else the Module tree when the Module attempt succeeds, and raises
\* exactly when both fail; when it raises the cached tree is the one from before
\* the call.
C3_ParseFallsBackOnce ==
    call.op = "parse" =>
        LET options == [jsx |-> call.jsx, tolerant |-> call.tolerant]
            script == esprima_parseScript(call.code, options)
            module == esprima_parseModule(call.code, options)
        IN /\ script.ok =>
                  (result = Return(toDict(script.obj)) /\ parser.ast = script.obj)
           /\ (~script.ok /\ module.ok) =>
                  (result = Return(toDict(module.obj)) /\ parser.ast = module.obj)
           /\ (result.kind = "raise") <=> (~script.ok /\ ~module.ok)
           /\ (result.kind = "raise") => parser.ast = before.ast
\* C3 witness: parse raised on a walker that holds a tree from an earlier parse.
C3_Witness ==
    /\ call.op = "parse"
    /\ result.kind = "raise"
    /\ before.ast # NoneObj
    /\ parser.source_code = call.code

\* C6: validate_syntax(code) never raises; it returns (True, None) when the strict
\* Script parse succeeds and (False, message), message non-empty, when it fails;
\* the cached tree is untouched.
C6_ValidateSyntaxNeverRaises ==
    call.op = "validate_syntax" =>
        LET strict == esprima_parseScript(call.code, [tolerant |-> FALSE])
        IN /\ result.kind = "return"
           /\ strict.ok => result.val = <<TRUE, None>>
           /\ ~strict.ok =>
                  /\ result.val[1] = FALSE
                  /\ result.val[2] = strict.err
                  /\ Truthy(result.val[2])
           /\ parser.ast = before.ast
\* C6 witness: a text the tolerant grammar accepts is reported invalid, on a
\* walker that holds a tree.
C6_Witness ==
    /\ call = CallOf("validate_syntax", SrcReturn)
    /\ result = Return(<<FALSE, "Line 1: Illegal return statement">>)
    /\ parser.ast # NoneObj

\* C7: extract_comments(code) makes its own strict parse with comments on: it
\* returns the comments when that succeeds and [] when it fails, never raises,
\* and leaves the cached tree unchanged.
C7_ExtractCommentsOwnParse ==
    call.op = "extract_comments" =>
        LET strict == esprima_parseScript(call.code, [tolerant |-> FALSE, comment |-> TRUE])
        IN /\ result.kind = "return"
           /\ strict.ok => result.val = strict.obj.comments
           /\ ~strict.ok => Len(result.val) = 0
           /\ parser.ast = before.ast
\* C7 witness: the strict parse fails (the text is not valid outside a function)
\* and [] comes back, on a walker that holds another tree.
C7_Witness ==
    /\ call = CallOf("extract_comments", SrcReturn)
    /\ result.kind = "return"
    /\ Len(result.val) = 0
    /\ parser.ast # NoneObj
    /\ parser.source_code = SrcFunctions

\* C10 (as claimed): whenever analyze_complexity reports metrics, lines is the
\* newline count of the retained source plus one, and 0 only when no source is
\* retained.
C10_LinesOfRetainedSource ==
    (call.op = "analyze_complexity" /\ result.kind = "return" /\ parser.ast # NoneObj) =>
        result.val.lines = IF Truthy(parser.source_code)
                           THEN Count(parser.source_code, "\n") + 1
                           ELSE 0

(***************************************************************************)
(* Two JSParser objects given the same call (SpecPair)                     *)
(***************************************************************************)
\* The sources the two objects are given: the empty text, a script, a module
\* and a text neither grammar accepts.
PairSources == {SrcEmpty, SrcFunctions, SrcImport, SrcInvalid}

\* One of the two objects parses a source of its own; the objects' separate
\* histories come before the calls they are given in common.
ParseFirst ==
    \E code \in PairSources :
        /\ call = NoCall
        /\ parser' = parse(parser, code, FALSE, TRUE).self
        /\ cached' = LastStored(parse(parser, code, FALSE, TRUE).log, cached)
        /\ UNCHANGED <<result, call, before, pair, threads, pure, styles, racing, gui>>
ParseOther ==
    \E code \in PairSources :
        /\ call = NoCall
        /\ other' = parse(other, code, FALSE, TRUE).self
        /\ UNCHANGED <<walker, other_result, threads, pure, styles, racing, gui>>

\* Both objects are given the same method with the same explicit code, the
\* other arguments at their defaults: c is the call, made and made_other what
\* it does on each object.
DoesBoth(c, made, made_other) ==
    /\ parser' = made.self
    /\ result' = made.ret
    /\ cached' = LastStored(made.log, cached)
    /\ before' = parser
    /\ call' = c
    /\ other' = made_other.self
    /\ other_result' = made_other.ret
    /\ UNCHANGED <<threads, pure, styles, racing, gui>>
BothParse ==
    \E code \in PairSources :
        DoesBoth(CallOf("parse", code), parse(parser, code, FALSE, TRUE), parse(other, code, FALSE, TRUE))
BothParseModule ==
    \E code \in PairSources :
        DoesBoth(CallOf("parse_module", code), parse_module(parser, code, FALSE), parse_module(other, code, FALSE))
BothTokenize ==
    \E code \in PairSources :
        DoesBoth(CallOf("tokenize", code), tokenize(parser, code), tokenize(other, code))
BothExtractFunctions ==
    \E code \in PairSources :
        DoesBoth(CallOf("extract_functions", code), extract_functions(parser, code), extract_functions(other, code))
BothExtractVariables ==
    \E code \in PairSources :
        DoesBoth(CallOf("extract_variables", code), extract_variables(parser, code), extract_variables(other, code))
BothExtractClasses ==
    \E code \in PairSources :
        DoesBoth(CallOf("extract_classes", code), extract_classes(parser, code), extract_classes(other, code))
BothExtractImports ==
    \E code \in PairSources :
        DoesBoth(CallOf("extract_imports", code), extract_imports(parser, code), extract_imports(other, code))
BothExtractExports ==
    \E code \in PairSources :
        DoesBoth(CallOf("extract_exports", code), extract_exports(parser, code), extract_exports(other, code))
BothGetAllIdentifiers ==
    \E code \in PairSources :
        DoesBoth(CallOf("get_all_identifiers", code), get_all_identifiers(parser, code), get_all_identifiers(other, code))
BothAnalyzeComplexity ==
    \E code \in PairSources :
        DoesBoth(CallOf("analyze_complexity", code), analyze_complexity(parser, code), analyze_complexity(other, code))
BothValidateSyntax ==
    \E code \in PairSources :
        DoesBoth(CallOf("validate_syntax", code), validate_syntax(parser, code), validate_syntax(other, code))
BothDetectModuleType ==
    \E code \in PairSources :
        DoesBoth(CallOf("detect_module_type", code), Call(parser, Return(detect_module_type(code)), << >>), Call(other, Return(detect_module_type(code)), << >>))
BothExtractComments ==
    \E code \in PairSources :
        DoesBoth(CallOf("extract_comments", code), extract_comments(parser, code), extract_comments(other, code))
BothFindDependencies ==
    \E code \in PairSources :
        DoesBoth(CallOf("find_dependencies", code), find_dependencies(parser, code), find_dependencies(other, code))
BothToJson ==
    \E code \in PairSources :
        DoesBoth(CallOf("to_json", code), to_json(parser, code, 2), to_json(other, code, 2))

NextPair ==
    \/ ParseFirst \/ ParseOther
    \/ BothParse \/ BothParseModule \/ BothTokenize
    \/ BothExtractFunctions \/ BothExtractVariables \/ BothExtractClasses
    \/ BothExtractImports \/ BothExtractExports \/ BothGetAllIdentifiers
    \/ BothAnalyzeComplexity \/ BothValidateSyntax \/ BothDetectModuleType
    \/ BothExtractComments \/ BothFindDependencies \/ BothToJson
SpecPair == Init /\ [][NextPair]_vars

\* C4 (as claimed): a method called with an explicit code argument, the empty
\* string included, returns or raises the same on two walkers whatever their
\* cached trees.
C4_ExplicitCodeDecidesResult ==
    (call.op # "__init__" /\ call.code # None) =>
        /\ result.kind = other_result.kind
        /\ result.val = other_result.val

(***************************************************************************)
(* Two threads in extract_functions(code) on one JSParser (SpecThreads).   *)
(* A thread's steps are the statements of the method: the call of          *)
(* self.parse, the test of self.ast, the traversal of self.ast.            *)
(***************************************************************************)
T_call(t) ==
    \E code \in Sources :
        /\ pc[t] = "idle"
        /\ pc' = [pc EXCEPT ![t] = "parse"]
        /\ targ' = [targ EXCEPT ![t] = code]
        /\ UNCHANGED <<walker, pair, tret, writer, saw, pure, styles, racing, gui>>
\* `if code: self.parse(code)`
T_parse(t) ==
    LET parsed == ParseGiven(parser, targ[t])
        stored == LastStored(parsed.log, NoneObj) # NoneObj
    IN /\ pc[t] = "parse"
       /\ parser' = parsed.self
       /\ cached' = LastStored(parsed.log, cached)
       /\ writer' = IF stored THEN t ELSE writer
       /\ pc' = [pc EXCEPT ![t] = IF Raised(parsed) THEN "done" ELSE "test"]
       /\ tret' = [tret EXCEPT ![t] = IF Raised(parsed) THEN parsed.ret ELSE @]
       /\ UNCHANGED <<result, call, before, pair, targ, saw, pure, styles, racing, gui>>
\* `if not self.ast: return []`
T_test(t) ==
    /\ pc[t] = "test"
    /\ pc' = [pc EXCEPT ![t] = IF parser.ast = NoneObj THEN "done" ELSE "traverse"]
    /\ tret' = [tret EXCEPT ![t] = IF parser.ast = NoneObj THEN Return(<< >>) ELSE @]
    /\ UNCHANGED <<walker, pair, targ, writer, saw, pure, styles, racing, gui>>
\* `self._traverse_ast(self.ast.toDict(), functions, 'function'); return functions`
T_traverse(t) ==
    /\ pc[t] = "traverse"
    /\ pc' = [pc EXCEPT ![t] = "done"]
    /\ tret' = [tret EXCEPT ![t] = Return(_traverse_ast(toDict(parser.ast), "function"))]
    /\ saw' = [saw EXCEPT ![t] = writer]
    /\ UNCHANGED <<walker, pair, targ, writer, pure, styles, racing, gui>>

NextThreads == \E t \in Threads : T_call(t) \/ T_parse(t) \/ T_test(t) \/ T_traverse(t)
SpecThreads == Init /\ [][NextThreads]_vars

\* The object esprima gives for code under the walker's default options: the
\* Script result, or the Module result when the Script grammar rejects the code.
EsprimaObject(code) ==
    IF esprima_parseScript(code, parse_options).ok
    THEN esprima_parseScript(code, parse_options).obj
    ELSE esprima_parseModule(code, parse_options).obj

\* C5: a thread's extract_functions(code) returns the extraction of the code of
\* whichever thread parsed last before the traversal, which need not be its own:
\* the cache is shared and unguarded.
C5_TraversalReadsSharedCache ==
    \A t \in Threads :
        (pc[t] = "done" /\ saw[t] # None) =>
            tret[t] = Return(_traverse_ast(toDict(EsprimaObject(targ[saw[t]])), "function"))
\* C5 witness: A parsed a text without functions, B then parsed its own, and A's
\* call returned the two functions of B's text.
C5_Witness ==
    /\ pc["A"] = "done"
    /\ targ["A"] = SrcReturn
    /\ targ["B"] = SrcFunctions
    /\ saw["A"] = "B"
    /\ tret["A"].kind = "return"
    /\ Len(tret["A"].val) = 2
    /\ tret["A"].val[1].name = "foo"

(***************************************************************************)
(* detect_module_type over texts built from its markers (SpecDetect)       *)
(***************************************************************************)
MaxChunks == 3
Chunks == {"import ", " from ", "export ", "require(", "module.exports", "exports.", "x"}
RECURSIVE Join(_)
Join(chunks) == IF Len(chunks) = 0 THEN "" ELSE Head(chunks) \o Join(Tail(chunks))
Texts == {Join(chunks) : chunks \in UNION {[1..n -> Chunks] : n \in 0..MaxChunks}}

InitDetect == InitWalker /\ InitPair /\ InitThreads /\ InitStyles /\ InitRacing /\ InitGui /\ input \in Texts
DetectInput ==
    Does(Call(parser, Return(detect_module_type(input)), << >>),
         CallOf("detect_module_type", input))
NextDetect == DetectInput
SpecDetect == InitDetect /\ [][NextDetect]_vars

\* The positions at which sub occurs in s.
Positions(s, sub) ==
    {i \in 1..(Len(s) - Len(sub) + 1) : SubSeq(s, i, i + Len(sub) - 1) = sub}
Occurs(s, sub) == Positions(s, sub) # {}
CommonJsMarked(s) ==
    Occurs(s, "require(") \/ Occurs(s, "module.exports") \/ Occurs(s, "exports.")
\* The answer for a text whose ES6 test gave es6marked.
Answer(s, es6marked) ==
    IF es6marked THEN "es6" ELSE IF CommonJsMarked(s) THEN "commonjs" ELSE "none"
Detected == call.op = "detect_module_type" /\ result.kind = "return"

\* C8 (as claimed): 'es6' exactly when an import is followed later in the text
\* by " from ", or the text contains "export "; otherwise 'commonjs' exactly
\* when a CommonJS marker occurs; otherwise 'none'.
C8_ImportFollowedByFrom ==
    Detected =>
        result.val =
            Answer(call.code,
                   \/ \E i \in Positions(call.code, "import "),
                         j \in Positions(call.code, " from ") : j >= i + 6
                   \/ Occurs(call.code, "export "))
\* C8 (amended): 'es6' exactly when the text contains "import " and contains
\* " from ", in either order, or contains "export "; otherwise 'commonjs'
\* exactly when a CommonJS marker occurs; otherwise 'none'.
C8_ImportAndFromAnywhere ==
    Detected =>
        result.val =
            Answer(call.code,
                   \/ (Occurs(call.code, "import ") /\ Occurs(call.code, " from "))
                   \/ Occurs(call.code, "export "))
\* C8 witness: " from " comes before the only "import ", a CommonJS marker is
\* present, and the answer is 'es6'.
C8_Witness ==
    /\ Detected
    /\ call.code = " from " \o "import " \o "require("
    /\ result.val = "es6"

(***************************************************************************)
(* The dependency lists of find_dependencies over token lists and import   *)
(* lists (SpecDeps)                                                        *)
(***************************************************************************)
MaxTokens == 6
MaxImports == 2
TRequire == Token("Identifier", "require")
TParen == Token("Punctuator", "(")
TString == Token("String", "'d'")
TEmptyString == Token("String", "''")
TQuotedString == Token("String", "'\"a\"'")
TokenKinds == {TRequire, TParen, TString, TEmptyString, TQuotedString}
TokenLists == UNION {[1..n -> TokenKinds] : n \in 0..MaxTokens}
ImportInfos == {[source |-> source, specifiers |-> << >>] : source \in {"b", "d"}}
ImportLists == UNION {[1..n -> ImportInfos] : n \in 0..MaxImports}
DepInputs ==
    {[imports |-> << >>, tokens |-> tokens] : tokens \in TokenLists}
    \cup {[imports |-> imports, tokens |-> << >>] : imports \in ImportLists}

InitDeps == InitWalker /\ InitPair /\ InitThreads /\ InitStyles /\ InitRacing /\ InitGui /\ input \in DepInputs
DependenciesOfInput ==
    Does(Call(parser, Return(Dependencies(input.imports, input.tokens)), << >>),
         CallOf("find_dependencies", None))
NextDeps == DependenciesOfInput
SpecDeps == InitDeps /\ [][NextDeps]_vars

Listed == call.op = "find_dependencies" /\ result.kind = "return"
\* The first String token among the four tokens after position i, 0 if none.
FirstString(tokens, i) ==
    LET strings == {j \in (i + 1)..(i + 4) : j <= Len(tokens) /\ tokens[j].type = "String"}
    IN IF strings = {} THEN 0 ELSE CHOOSE j \in strings : \A k \in strings : j <= k
\* The members of a set of positions in increasing order.
Ascending(positions) ==
    [k \in 1..Cardinality(positions) |->
        CHOOSE i \in positions : Cardinality({h \in positions : h < i}) = k - 1]
\* A token value without its first and last character, the quotes of the literal.
Unquoted(value) == SubSeq(value, 2, Len(value) - 1)
\* A token value without any quote character at either end.
Bare(value) ==
    LET kept == {i \in 1..Len(value) : SubSeq(value, i, i) \notin Quotes}
    IN IF kept = {} THEN ""
       ELSE SubSeq(value, CHOOSE i \in kept : \A k \in kept : i <= k,
                          CHOOSE i \in kept : \A k \in kept : i >= k)
Sourced ==
    result.val.imports = [i \in 1..Len(input.imports) |-> input.imports[i].source]

\* C9 (as claimed): every require Identifier with a String token among the next
\* four tokens contributes the unquoted value of the first such token, in
\* encounter order with duplicates; 'imports' lists the source of every import.
C9_RequireContributesUnquoted ==
    Listed =>
        LET tokens == input.tokens
            hits == {i \in 1..Len(tokens) : tokens[i] = TRequire /\ FirstString(tokens, i) # 0}
        IN /\ result.val.requires =
                 [k \in 1..Cardinality(hits) |->
                     Unquoted(tokens[FirstString(tokens, Ascending(hits)[k])].value)]
           /\ Sourced
\* C9 (amended): every require Identifier with a String token among the next
\* four tokens contributes the value of the first such token with the quote
\* characters at both its ends removed, unless nothing is left of it; in
\* encounter order with duplicates; 'imports' lists the source of every import.
C9_RequireContributesBareNonEmpty ==
    Listed =>
        LET tokens == input.tokens
            hits == {i \in 1..Len(tokens) :
                        /\ tokens[i] = TRequire
                        /\ FirstString(tokens, i) # 0
                        /\ Bare(tokens[FirstString(tokens, i)].value) # ""}
        IN /\ result.val.requires =
                 [k \in 1..Cardinality(hits) |->
                     Bare(tokens[FirstString(tokens, Ascending(hits)[k])].value)]
           /\ Sourced
\* C9 witness: a require whose string holds quotes of its own gives the text
\* inside them, and a require of the empty string gives nothing.
C9_Witness ==
    /\ Listed
    /\ input.tokens = <<TRequire, TParen, TQuotedString, TRequire, TParen, TEmptyString>>
    /\ result.val.requires = <<"a">>

(***************************************************************************)
(* The traversals over trees with nesting (SpecTree): the walker holds the *)
(* tree of a script and is called without code.                            *)
(***************************************************************************)
MaxNest == 2
\* Statements without a block of their own.
StmtConst ==
    VariableDeclaration("const", <<VariableDeclarator(Identifier("x"), Literal("1"))>>)
StmtLetTwo ==
    VariableDeclaration("let",
        << VariableDeclarator(Identifier("a"), NoneObj),
           VariableDeclarator(ObjectPattern(<<>>), Identifier("o")) >>)
StmtArrow ==
    ExpressionStatement(
        ArrowFunctionExpression(
            << Identifier("p"), AssignmentPattern(Identifier("q"), Literal("1")),
               RestElement(Identifier("r")) >>,
            ConditionalExpression(Identifier("p"), Identifier("q"), Identifier("r"))))
StmtReturnGenerator ==
    ReturnStatement(
        FunctionExpression(NoneObj, <<ObjectPattern(<<>>), Identifier("z")>>,
                           BlockStatement(<<>>), TRUE))
StmtClass == ClassDeclaration(Identifier("K"), Identifier("Base"), ClassBody(<<>>))
\* Statements around a block.
Wrappers == {"function", "async function", "if", "for", "while", "async arrow"}
Wrap(wrapper, block) ==
    IF wrapper = "function"
    THEN FunctionDeclaration(Identifier("outer"), <<Identifier("u")>>, BlockStatement(block))
    ELSE IF wrapper = "async function"
    THEN AsyncFunctionDeclaration(Identifier("later"), <<>>, BlockStatement(block))
    ELSE IF wrapper = "if"
    THEN IfStatement(Identifier("c"), BlockStatement(block), NoneObj)
    ELSE IF wrapper = "for"
    THEN ForStatement(VariableDeclaration("var",
                          <<VariableDeclarator(Identifier("i"), Literal("0"))>>),
                      Identifier("c"), NoneObj, BlockStatement(block))
    ELSE IF wrapper = "while"
    THEN WhileStatement(Identifier("c"), BlockStatement(block))
    ELSE ExpressionStatement(AsyncArrowFunctionExpression(<<>>, BlockStatement(block)))
FlatBlocks ==
    {<< >>, <<StmtConst>>, <<StmtLetTwo, StmtArrow>>, <<StmtReturnGenerator, StmtClass>>}
\* The statement lists with at most nest levels of blocks inside blocks.
RECURSIVE Blocks(_)
Blocks(nest) ==
    IF nest = 0 THEN FlatBlocks
    ELSE FlatBlocks
         \cup {<<Wrap(w, b)>> : w \in Wrappers, b \in Blocks(nest - 1)}
         \cup {<<Wrap(w, b), StmtArrow>> : w \in Wrappers, b \in Blocks(nest - 1)}
Trees == {Program(body, "script") : body \in Blocks(MaxNest)}

\* The walker after a parse that gave tree.
Holding(tree) == [ast |-> [dict |-> tree], source_code |-> None]

InitTree == InitWalker /\ InitPair /\ InitThreads /\ InitStyles /\ InitRacing /\ InitGui /\ input \in Trees
FunctionsOfTree ==
    Does(extract_functions(Holding(input), None), CallOf("extract_functions", None))
VariablesOfTree ==
    Does(extract_variables(Holding(input), None), CallOf("extract_variables", None))
ClassesOfTree ==
    Does(extract_classes(Holding(input), None), CallOf("extract_classes", None))
ComplexityOfTree ==
    Does(analyze_complexity(Holding(input), None), CallOf("analyze_complexity", None))
NextTree == FunctionsOfTree \/ VariablesOfTree \/ ClassesOfTree \/ ComplexityOfTree
SpecTree == InitTree /\ [][NextTree]_vars

\* The nodes of a tree, a node before the nodes below it, those in the order of
\* its fields and list elements.
RECURSIVE PreOrder(_)
PreOrder(node) ==
    LET RECURSIVE Below(_)
        Below(items) ==
            IF Len(items) = 0 THEN << >> ELSE PreOrder(Head(items)) \o Below(Tail(items))
    IN <<node>> \o Below(Children(node))
\* How many nodes of the tree have a type in types.
NodesOfType(tree, types) ==
    Cardinality({i \in 1..Len(PreOrder(tree)) : PreOrder(tree)[i].type \in types})
StatementTypes ==
    {"BlockStatement", "ExpressionStatement", "ReturnStatement", "IfStatement",
     "ForStatement", "WhileStatement"}
LoopTypes ==
    {"ForStatement", "ForInStatement", "ForOfStatement", "WhileStatement", "DoWhileStatement"}
ConditionalTypes == {"IfStatement", "ConditionalExpression", "SwitchStatement"}
FunctionTypes == {"FunctionDeclaration", "FunctionExpression", "ArrowFunctionExpression"}
ClassTypes == {"ClassDeclaration", "ClassExpression"}
Called(op) == call.op = op /\ result.kind = "return"

\* C11: analyze_complexity's functions, variables and classes are the lengths of
\* the three extractions of the same tree, and statements, loops and
\* conditionals are the numbers of nodes of the tree that pass the type test,
\* each node counted once.
C11_MetricsCountNodesOnce ==
    Called("analyze_complexity") =>
        /\ result.val.functions = Len(_traverse_ast(input, "function"))
        /\ result.val.variables = Len(_traverse_ast(input, "variable"))
        /\ result.val.classes = Len(_traverse_ast(input, "class"))
        /\ result.val.statements = NodesOfType(input, StatementTypes)
        /\ result.val.loops = NodesOfType(input, LoopTypes)
        /\ result.val.conditionals = NodesOfType(input, ConditionalTypes)
\* C11 witness: a while loop inside an if, with an arrow whose body is a
\* conditional expression after it.
C11_Witness ==
    /\ Called("analyze_complexity")
    /\ input = Program(<<Wrap("if", <<Wrap("while", <<StmtConst>>)>>), StmtArrow>>, "script")
    /\ result.val.statements = 5
    /\ result.val.loops = 1
    /\ result.val.conditionals = 2
    /\ result.val.functions = 1
    /\ result.val.variables = 1

\* The nodes of the tree with a type in types, in pre-order.
Matching(tree, types) == SelectSeq(PreOrder(tree), LAMBDA n : n.type \in types)
DirectNames(params) ==
    LET direct == SelectSeq(params, LAMBDA p : p.type = "Identifier")
    IN [i \in 1..Len(direct) |-> direct[i].name]
\* C13 (as claimed): every function node gives a record of its kind, its name
\* (absent for arrows and anonymous expressions), the names of its parameters
\* that are direct identifiers, its async flag and its generator flag, which is
\* false for every arrow.
C13_FunctionRecord ==
    Called("extract_functions") =>
        \A i \in 1..Len(result.val) :
            LET node == Matching(input, FunctionTypes)[i]
                entry == result.val[i]
            IN /\ entry.type = node.type
               /\ entry.name = (IF node.type = "ArrowFunctionExpression" \/ node.id = NoneObj
                                THEN None ELSE node.id.name)
               /\ entry.params = DirectNames(node.params)
               /\ entry.async = node.async
               /\ "generator" \in DOMAIN entry
               /\ entry.generator = node.generator
               /\ (node.type = "ArrowFunctionExpression" => entry.generator = FALSE)

\* The declarators of the variable declarations of the tree, each with the kind
\* of its declaration, in pre-order and declarator order.
RECURSIVE Declared(_)
Declared(declarations) ==
    IF Len(declarations) = 0 THEN << >>
    ELSE [i \in 1..Len(Head(declarations).declarations) |->
             [kind |-> Head(declarations).kind,
              name |-> IF Head(declarations).declarations[i].id.type = "Identifier"
                       THEN Head(declarations).declarations[i].id.name ELSE None]]
         \o Declared(Tail(declarations))
\* C14: extract_variables holds one entry per declarator of every variable
\* declaration, with the declaration's kind and the declarator's name, absent
\* for a destructuring pattern; n declarators give n entries in their order.
C14_OneEntryPerDeclarator ==
    Called("extract_variables") =>
        result.val = Declared(Matching(input, {"VariableDeclaration"}))
\* C14 witness: a for loop declaring i with var around a let of two declarators,
\* the second a pattern.
C14_Witness ==
    /\ Called("extract_variables")
    /\ input = Program(<<Wrap("for", <<StmtLetTwo, StmtArrow>>)>>, "script")
    /\ result.val = << [kind |-> "var", name |-> "i"], [kind |-> "let", name |-> "a"],
                       [kind |-> "let", name |-> None] >>

(***************************************************************************)
(* CSSParser over stylesheets of qualified rules, at-rules, whitespace and *)
(* an unfinished rule (SpecCss).  A method is given the stylesheet, or the *)
(* text minify_css or prettify_css just returned.                          *)
(***************************************************************************)
MaxRules == 2
MaxChain == 2
\* a { color: red; }
RuleColor == <<"a", " ", "{", " ", "color", ":", " ", "red", ";", " ", "}">>
\* h1, h2 {background:blue !important;width:1px}   on a line of its own
RuleGroup ==
    <<"\n", "h1", ",", " ", "h2", " ", "{", "background", ":", "blue", " ", "!", "important",
      ";", "width", ":", "1px", "}">>
\* a {Border-Color: #fff;color:;fill:red}
RuleAgain ==
    <<"a", " ", "{", "Border-Color", ":", " ", "#fff", ";", "color", ":", ";",
      "fill", ":", "red", "}">>
\* @media screen { p {color:red} }
MediaScreen ==
    <<"@media", " ", "screen", " ", "{", " ", "p", " ", "{", "color", ":", "red", "}", " ", "}">>
\* @media print {@supports (x) {b{}}i {fill:red}}
MediaPrint ==
    <<"@media", " ", "print", " ", "{", "@supports", " ", "(", "x", ")", " ", "{", "b", "{", "}",
      "}", "i", " ", "{", "fill", ":", "red", "}", "}">>
\* @import "x.css";
ImportSheet == <<"@import", " ", "\"x.css\"", ";">>
\* a prelude with no block after it
Unfinished == <<"oops">>
RuleTexts ==
    {RuleColor, RuleGroup, RuleAgain, MediaScreen, MediaPrint, ImportSheet, Unfinished}
RECURSIVE JoinTexts(_)
JoinTexts(texts) == IF Len(texts) = 0 THEN << >> ELSE Head(texts) \o JoinTexts(Tail(texts))
Stylesheets ==
    {Text(JoinTexts(texts)) : texts \in UNION {[1..n -> RuleTexts] : n \in 0..MaxRules}}

InitCss == InitWalker /\ InitPair /\ InitThreads /\ InitStyles /\ InitRacing /\ InitGui /\ input \in Stylesheets
\* The texts a method can be given, each with the methods it came through.
TextsGiven ==
    {[css_text |-> input, chain |-> << >>]}
    \cup (IF /\ css_call.op \in {"minify_css", "prettify_css"}
             /\ css_result.kind = "return"
             /\ Len(css_call.chain) < MaxChain
          THEN {[css_text |-> css_result.val, chain |-> Append(css_call.chain, css_call.op)]}
          ELSE {})
\* A call on css takes effect.
DoesCss(op, given, made) ==
    /\ css' = made.self
    /\ css_result' = made.ret
    /\ css_call' = [op |-> op, css_text |-> given.css_text, chain |-> given.chain]
    /\ UNCHANGED <<walker, pair, threads, pure, racing, gui>>
ParseStylesheet ==
    \E given \in TextsGiven :
        DoesCss("parse_stylesheet", given, parse_stylesheet(css, given.css_text))
ExtractColors ==
    \E given \in TextsGiven :
        DoesCss("extract_colors", given, extract_colors(css, given.css_text))
ExtractSelectors ==
    \E given \in TextsGiven :
        DoesCss("extract_selectors", given, extract_selectors(css, given.css_text))
GetAllDeclarations ==
    \E given \in TextsGiven :
        DoesCss("get_all_declarations", given, get_all_declarations(css, given.css_text))
ParseMediaQueries ==
    \E given \in TextsGiven :
        DoesCss("parse_media_queries", given, parse_media_queries(css, given.css_text))
MinifyCss ==
    \E given \in TextsGiven :
        DoesCss("minify_css", given, minify_css(css, given.css_text))
PrettifyCss ==
    \E given \in TextsGiven :
        DoesCss("prettify_css", given, prettify_css(css, given.css_text, "  "))
NextCss ==
    \/ ParseStylesheet \/ ExtractColors \/ ExtractSelectors \/ GetAllDeclarations
    \/ ParseMediaQueries \/ MinifyCss \/ PrettifyCss
SpecCss == InitCss /\ [][NextCss]_vars

\* The rules of a kind in the rule list tinycss2 gives for a text.
RulesOfKind(text, kind) ==
    SelectSeq(tinycss2_parse_stylesheet(text), LAMBDA rule : rule.type = kind)
CssCalled(op) == css_call.op = op
CssReturned(op) == css_call.op = op /\ css_result.kind = "return"
\* C15 (as claimed): for a stylesheet with k top-level qualified rules, among
\* any at-rules, whitespace and error nodes, extract_selectors returns k
\* strings, the i-th the serialized prelude of the i-th qualified rule.
C15_OneSelectorPerQualifiedRule ==
    CssCalled("extract_selectors") =>
        /\ css_result.kind = "return"
        /\ css_result.val =
              [i \in 1..Len(RulesOfKind(css_call.css_text, "qualified-rule")) |->
                  RulesOfKind(css_call.css_text, "qualified-rule")[i].prelude]

\* The entries of the text prettify_css is claimed to give: an at-rule whole on
\* one entry, a qualified rule as the lines of its selector and declarations.
RECURSIVE EntriesClaimed(_)
EntriesClaimed(rules) ==
    IF Len(rules) = 0 THEN << >>
    ELSE (IF Head(rules).type = "at-rule"
          THEN << SerializeRules(<<Head(rules)>>) \o <<"\n">> >>
          ELSE PrettyLines(<<Head(rules)>>, "  "))
         \o EntriesClaimed(Tail(rules))
\* C16 (as claimed): prettify_css emits every top-level at-rule as one entry
\* holding its complete serialization (at-keyword, prelude and block), and the
\* entries of consecutive rules are separated by a blank line.
C16_AtRuleEmittedWhole ==
    CssCalled("prettify_css") =>
        /\ css_result.kind = "return"
        /\ css_result.val =
              Text(JoinLines(EntriesClaimed(tinycss2_parse_stylesheet(css_call.css_text))))

\* The selectors, declarations and important flags of a rule list.
Semantics(rules) ==
    LET qualified == SelectSeq(rules, LAMBDA rule : rule.type = "qualified-rule")
    IN [i \in 1..Len(qualified) |->
           [selector |-> Stripped(qualified[i].prelude),
            declarations |-> DeclList(qualified[i])]]
\* C17 (as claimed): for a stylesheet x of qualified rules and at-rules,
\* prettify_css(minify_css(x)) is a text, and parsing it gives the selectors,
\* declarations and important flags of parsing x.
C17_PrettifyMinifyRoundTrip ==
    /\ (CssCalled("prettify_css") /\ css_call.chain = <<"minify_css">>) =>
          css_result.kind = "return"
    /\ (CssReturned("parse_stylesheet") /\ css_call.chain = <<"minify_css", "prettify_css">>) =>
          Semantics(css_result.val) = Semantics(tinycss2_parse_stylesheet(input))

\* C18 (as claimed): parse_media_queries returns one entry per top-level media
\* at-rule, in order, its condition the serialized prelude and its rules the
\* selectors of the qualified rules directly nested in it, nested at-rules
\* contributing nothing.
C18_MediaEntries ==
    CssCalled("parse_media_queries") =>
        LET media == SelectSeq(RulesOfKind(css_call.css_text, "at-rule"),
                               LAMBDA rule : rule.at_keyword = "media")
        IN /\ css_result.kind = "return"
           /\ css_result.val =
                 [i \in 1..Len(media) |->
                     [condition |-> Stripped(media[i].prelude),
                      rules |-> LET nested == RulesOfKind(media[i].content, "qualified-rule")
                                IN [k \in 1..Len(nested) |-> Stripped(nested[k].prelude)]]]

\* The declarations, in document order, of the rules among rules whose
\* selector text is selector.
RECURSIVE DeclaredFor(_, _)
DeclaredFor(rules, selector) ==
    IF Len(rules) = 0 THEN << >>
    ELSE (IF Stripped(Head(rules).prelude) = selector THEN DeclList(Head(rules)) ELSE << >>)
         \o DeclaredFor(Tail(rules), selector)
\* C19 (as claimed): get_all_declarations maps each selector text to the
\* declarations, in document order, of all rules with that selector text, each
\* with the important flag of the parsed declaration.
C19_DeclarationsBySelectorText ==
    CssCalled("get_all_declarations") =>
        LET qualified == RulesOfKind(css_call.css_text, "qualified-rule")
        IN /\ css_result.kind = "return"
           /\ DOMAIN css_result.val = {Stripped(qualified[i].prelude) : i \in 1..Len(qualified)}
           /\ \A selector \in DOMAIN css_result.val :
                 css_result.val[selector] = DeclaredFor(qualified, selector)

\* The serialized values of the declarations of rules whose property name holds
\* a color word, in document order.
RECURSIVE ColorValues(_)
ColorValues(rules) ==
    IF Len(rules) = 0 THEN << >>
    ELSE LET named == SelectSeq(DeclarationsOf(Head(rules)),
                          LAMBDA decl : \E word \in {"color", "background", "border",
                                                     "fill", "stroke"} :
                                           Contains(Lower(decl.name), word))
         IN [i \in 1..Len(named) |-> Stripped(named[i].value)] \o ColorValues(Tail(rules))
\* C20 (as claimed): extract_colors returns the serialized value of every
\* declaration whose property name contains color, background, border, fill or
\* stroke in any case, in document order, duplicates kept.
C20_ColorValueOfEveryDeclaration ==
    CssCalled("extract_colors") =>
        /\ css_result.kind = "return"
        /\ css_result.val =
              ColorValues(SelectSeq(tinycss2_parse_stylesheet(css_call.css_text),
                                    LAMBDA rule : /\ rule.type \in {"qualified-rule", "at-rule"}
                                                  /\ rule.content # NoContent))

(***************************************************************************)
(* CSSParser's methods with a second argument, and the methods that read   *)
(* the declarations of every rule, on a stylesheet (SpecSheet).            *)
(***************************************************************************)
\* A call on css with a second argument takes effect.
DoesCssWith(op, given, arg, made) ==
    /\ css' = made.self
    /\ css_result' = made.ret
    /\ css_call' = [op |-> op, css_text |-> given.css_text, chain |-> given.chain, arg |-> arg]
    /\ UNCHANGED <<walker, pair, threads, pure, racing, gui>>
\* The stylesheet as the text a method is given.
SheetGiven == [css_text |-> input, chain |-> << >>]
\* The indents prettify_css is given: the default, a tab, none.
Indents == {"  ", "\t", ""}
PrettifyIndented ==
    \E indent \in Indents :
        DoesCssWith("prettify_css", SheetGiven, indent, prettify_css(css, input, indent))
PropertyNames == {"color", "BORDER-COLOR", "Fill"}
ExtractProperties ==
    \E property_name \in PropertyNames :
        DoesCssWith("extract_properties", SheetGiven, property_name,
                    extract_properties(css, input, property_name))
NextSheet ==
    \/ PrettifyIndented \/ ExtractProperties \/ ExtractColors \/ GetAllDeclarations
SpecSheet == InitCss /\ [][NextSheet]_vars

\* The pairs claimed for a rule list: for every rule with a block, in order, the
\* serialized prelude and the value of each declaration named property_name in
\* any case.
RECURSIVE PairsClaimed(_, _)
PairsClaimed(rules, property_name) ==
    IF Len(rules) = 0 THEN << >>
    ELSE LET rule == Head(rules)
             declared == IF /\ rule.type \in {"qualified-rule", "at-rule"}
                            /\ rule.content # NoContent
                         THEN DeclarationsOf(rule) ELSE << >>
             named == SelectSeq(declared,
                          LAMBDA decl : Lower(decl.name) = Lower(property_name))
         IN [i \in 1..Len(named) |-> <<rule.prelude, Stripped(named[i].value)>>]
            \o PairsClaimed(Tail(rules), property_name)
OccursIn(text, sub) ==
    \E i \in 1..(Len(text) - Len(sub) + 1) : SubSeq(text, i, i + Len(sub) - 1) = sub
\* The lines claimed for the declarations: "<indent><prop>: <value>;" with
\* " !important" before the semicolon of an important one.
RECURSIVE LinesClaimed(_, _)
LinesClaimed(declarations, indent) ==
    IF Len(declarations) = 0 THEN << >>
    ELSE (IF indent = "" THEN << >> ELSE <<indent>>)
         \o <<Head(declarations).name, ":", " ">> \o Stripped(Head(declarations).value)
         \o (IF Head(declarations).important THEN <<" ", "!", "important">> ELSE << >>)
         \o <<";", "\n">>
         \o LinesClaimed(Tail(declarations), indent)
C28_ReturnsForEveryRuleList ==
    css_call.op \in {"extract_colors", "extract_properties", "get_all_declarations",
                     "prettify_css"}
        => css_result.kind = "return"

(***************************************************************************)
(* validate_color on texts put together from a few tokens (SpecColor).     *)
(***************************************************************************)
MaxPieces == 3
ColorPieces == {"red", " ", "{", "}", ";"}
ColorTexts ==
    {Text(pieces) : pieces \in UNION {[1..n -> ColorPieces] : n \in 0..MaxPieces}}
InitColor == InitWalker /\ InitPair /\ InitThreads /\ InitStyles /\ InitRacing /\ InitGui /\ input \in ColorTexts
ValidateColor ==
    \E build \in Builds :
        DoesCssWith("validate_color", SheetGiven, build, validate_color(css, input, build))
NextColor == ValidateColor
SpecColor == InitColor /\ [][NextColor]_vars

\* C23 (as claimed): validate_color(value) returns true exactly when parsing
\* "color: <value>" as a declaration list yields at least one declaration, false
\* when the parse yields only error nodes or nothing, and never raises.
C23_TrueExactlyWithADeclaration ==
    CssCalled("validate_color") =>
        LET items == ParsedBy(css_call.arg, Text(<<"color", ":", " ">> \o css_call.css_text))
        IN /\ css_result.kind = "return"
           /\ css_result.val = (\E i \in 1..Len(items) : items[i].type = "declaration")

(***************************************************************************)
(* Two threads call extract_selectors on one CSSParser, each with its own  *)
(* text (SpecRace).  A step is one line of parse_stylesheet or the loop of *)
(* extract_selectors over the rules it was handed.                         *)
(***************************************************************************)
RaceTexts == {RuleColor, RuleGroup, Text(MediaScreen \o RuleAgain)}
InitRace == InitWalker /\ InitPair /\ InitThreads /\ InitPure /\ InitStyles /\ InitRacing /\ InitGui
\* extract_selectors(css_text) is called: rules = self.parse_stylesheet(css_text)
R_call(t) ==
    /\ css_pc[t] \in {"idle", "done"}
    /\ \E css_text \in RaceTexts : css_arg' = [css_arg EXCEPT ![t] = css_text]
    /\ css_pc' = [css_pc EXCEPT ![t] = "parse"]
    /\ UNCHANGED <<walker, pair, threads, pure, styles, css_rules, css_ret, gui>>
\* self.stylesheet = tinycss2.parse_stylesheet(css_text, skip_comments=True)
R_parse(t) ==
    /\ css_pc[t] = "parse"
    /\ css' = [css EXCEPT !.stylesheet = tinycss2_parse_stylesheet(css_arg[t])]
    /\ css_pc' = [css_pc EXCEPT ![t] = "store"]
    /\ UNCHANGED <<walker, pair, threads, pure, css_call, css_result, css_arg, css_rules,
                   css_ret, gui>>
\* self.parsed_rules = self.stylesheet
R_store(t) ==
    /\ css_pc[t] = "store"
    /\ css' = [css EXCEPT !.parsed_rules = css.stylesheet]
    /\ css_pc' = [css_pc EXCEPT ![t] = "return"]
    /\ UNCHANGED <<walker, pair, threads, pure, css_call, css_result, css_arg, css_rules,
                   css_ret, gui>>
\* return self.parsed_rules
R_return(t) ==
    /\ css_pc[t] = "return"
    /\ css_rules' = [css_rules EXCEPT ![t] = css.parsed_rules]
    /\ css_pc' = [css_pc EXCEPT ![t] = "loop"]
    /\ UNCHANGED <<walker, pair, threads, pure, styles, css_arg, css_ret, gui>>
\* the loop over rules, and return selectors
R_loop(t) ==
    /\ css_pc[t] = "loop"
    /\ LET preluded == SelectSeq(css_rules[t], LAMBDA rule : hasattr(rule, "prelude"))
       IN css_ret' = [css_ret EXCEPT ![t] =
              Return([i \in 1..Len(preluded) |-> tinycss2_serialize(preluded[i].prelude)])]
    /\ css_pc' = [css_pc EXCEPT ![t] = "done"]
    /\ UNCHANGED <<walker, pair, threads, pure, styles, css_arg, css_rules, gui>>
NextRace == \E t \in Threads : R_call(t) \/ R_parse(t) \/ R_store(t) \/ R_return(t) \/ R_loop(t)
SpecRace == InitRace /\ [][NextRace]_vars

\* C29 (as claimed): the result of an extractor depends only on its css_text
\* argument even when two threads call extractors on the same CSSParser: no
\* interleaving makes a call return rules parsed from the other thread's text.
C29_ResultOfOwnText ==
    \A t \in Threads :
        css_pc[t] = "done" => css_ret[t] = extract_selectors(NewCSSParser, css_arg[t]).ret

(***************************************************************************)
(* One BrowserTab: the calls on it, the page changing its URL, and the     *)
(* callbacks set with parent_frame.after, which fire in the order they     *)
(* were set, all with the same delay (SpecTab).                            *)
(***************************************************************************)
MaxHistory == 3
MaxTimers == 2
UrlA == "https://a.test/"
UrlB == "https://b.test/docs"
\* The link DuckDuckGo gives for UrlB.
UrlRedirect == "https://duckduckgo.com/l/?uddg=https%3A%2F%2Fb.test%2Fdocs"
Urls == {UrlA, UrlB, UrlRedirect}
\* What html_widget.get_url() can give: a page, the blank page, nothing.
WidgetUrls == Urls \cup {"about:blank", ""}
InitTab == InitWalker /\ InitPair /\ InitThreads /\ InitPure /\ InitStyles /\ InitRacing /\ InitGui

\* Where a tab stands in its history.
Position(self) ==
    [is_showing_web |-> self.is_showing_web, history_index |-> self.history_index,
     current_url |-> self.current_url]
\* A call on tab takes effect; set is the sequence of callbacks pending after it.
DoesTab(op, url, self, set) ==
    /\ tab' = self
    /\ tab_trail' = <<[op |-> op, before |-> tab]>> \o
                     (IF Len(tab_trail) = 0 THEN << >>
                      ELSE <<[op |-> tab_trail[1].op, before |-> Position(tab_trail[1].before)]>>)
    /\ timers' = set
    /\ UNCHANGED <<walker, pair, threads, pure, styles, racing, browser, browser_call>>
LoadUrl ==
    /\ Len(tab.history) < MaxHistory
    /\ Len(timers) < MaxTimers
    /\ \E url \in Urls, fails \in BOOLEAN :
          DoesTab("load_url", url, load_url(tab, url, fails).self,
                  timers \o load_url(tab, url, fails).after)
GoBack == \E fails \in BOOLEAN : DoesTab("go_back", "", go_back(tab, fails), timers)
GoForward == \E fails \in BOOLEAN : DoesTab("go_forward", "", go_forward(tab, fails), timers)
Reload == DoesTab("reload", "", reload(tab), timers)
\* _on_url_changed calls html_widget.load_url only for a redirect link, so
\* only there can the call raise.
LoadRaises(url) == IF IsRedirect(url) THEN BOOLEAN ELSE {FALSE}
\* The page reports a change of its URL.
OnUrlChanged ==
    /\ Len(tab.history) < MaxHistory
    /\ \E url \in WidgetUrls : \E fails \in LoadRaises(url) :
          DoesTab("_on_url_changed", url, _on_url_changed(tab, url, fails), timers)
\* What html_widget.get_url() gives when a callback runs: any page while the
\* history has room.
Polled == IF Len(tab.history) < MaxHistory THEN WidgetUrls ELSE {"about:blank", ""}
FireCheck ==
    /\ Len(timers) > 0
    /\ Head(timers) = "_check_url_change_fallback"
    /\ \E new_url \in Polled : \E fails \in LoadRaises(new_url) :
          DoesTab("_check_url_change_fallback", new_url,
                  _check_url_change_fallback(tab, new_url, fails).self,
                  Tail(timers) \o _check_url_change_fallback(tab, new_url, fails).after)
FireDelayed ==
    /\ Len(timers) > 0
    /\ Head(timers) = "_delayed_check"
    /\ \E new_url \in Polled : \E fails \in LoadRaises(new_url) :
          DoesTab("_delayed_check", new_url,
                  _delayed_check(tab, new_url, fails).self,
                  Tail(timers) \o _delayed_check(tab, new_url, fails).after)
NextTab ==
    \/ LoadUrl \/ GoBack \/ GoForward \/ Reload \/ OnUrlChanged \/ FireCheck \/ FireDelayed
SpecTab == InitTab /\ [][NextTab]_vars

\* The last call on the tab and the tab as it was before that call.
LastCall == tab_trail[1]
TabCalled(ops) == Len(tab_trail) > 0 /\ LastCall.op \in ops
\* The entry of the history that self.history_index names.
CurrentEntry(self) == self.history[self.history_index + 1]
\* The last call added to a history whose current entry was not its last one.
NavigatedFromEarlier ==
    /\ Len(tab_trail) > 0
    /\ tab.history # LastCall.before.history
    /\ LastCall.before.history_index >= 0
    /\ LastCall.before.history_index < Len(LastCall.before.history) - 1

\* C24: a navigation to a new URL made while history_index is not the last
\* index, through load_url or through _on_url_changed, discards the entries
\* after the current one: the new URL is the last entry of the history and
\* comes immediately after the entry that was current before the navigation.
C24_ForwardEntriesDiscarded ==
    NavigatedFromEarlier =>
        /\ tab.history = Append(SubSeq(LastCall.before.history, 1,
                                       LastCall.before.history_index + 1),
                                tab.current_url)
        /\ tab.history_index = Len(tab.history) - 1

\* C25: history_index is -1 while the history is empty and otherwise names
\* an entry of it; while the tab shows web content, current_url is that entry.
C25_IndexNamesCurrentEntry ==
    /\ tab.history = << >> => tab.history_index = -1
    /\ tab.history # << >> =>
          tab.history_index >= 0 /\ tab.history_index < Len(tab.history)
    /\ (tab.is_showing_web /\ tab.history # << >>) =>
          tab.current_url = CurrentEntry(tab)
C25_Witness ==
    /\ TabCalled({"go_back"})
    /\ tab.is_showing_web
    /\ Len(tab.history) = MaxHistory
    /\ tab.history_index = 0
    /\ LastCall.before.history_index = 0
    /\ tab.current_url = CurrentEntry(tab)

\* C27: each tab has at most one URL-polling callback pending at any time.
C27_OnePollingCallback == Len(timers) <= 1

\* C30: in a tab showing web content, go_back at index 0 and go_forward at
\* the last index change nothing; from any other index go_back followed by
\* go_forward restores history_index and current_url; neither call changes
\* the history.
C30_BackThenForwardRestores ==
    /\ (TabCalled({"go_back"}) /\ LastCall.before.is_showing_web
            /\ LastCall.before.history_index = 0) => tab = LastCall.before
    /\ (TabCalled({"go_forward"}) /\ LastCall.before.is_showing_web
            /\ LastCall.before.history_index = Len(LastCall.before.history) - 1) =>
          tab = LastCall.before
    /\ (TabCalled({"go_forward"}) /\ Len(tab_trail) = 2 /\ tab_trail[2].op = "go_back"
            /\ tab_trail[2].before.is_showing_web
            /\ tab_trail[2].before.history_index > 0) =>
          /\ tab.history_index = tab_trail[2].before.history_index
          /\ tab.current_url = tab_trail[2].before.current_url
    /\ (TabCalled({"go_back", "go_forward"}) /\ LastCall.before.is_showing_web) =>
          tab.history = LastCall.before.history
C30_Witness ==
    /\ TabCalled({"go_forward"})
    /\ Len(tab_trail) = 2
    /\ tab_trail[2].op = "go_back"
    /\ tab_trail[2].before.is_showing_web
    /\ tab_trail[2].before.history_index = 1
    /\ Len(tab.history) = MaxHistory
    /\ tab.history_index = 1

(***************************************************************************)
(* The MiiBrowser window: the commands of its buttons and key bindings     *)
(* (SpecBrowser).  A button of a closed tab is destroyed, but a call with  *)
(* the id of a tab that is gone is still taken, as the code guards it.     *)
(***************************************************************************)
MaxTabs == 4
TabIds == 1..MaxTabs
InitBrowser == InitWalker /\ InitPair /\ InitThreads /\ InitPure /\ InitStyles /\ InitRacing /\ InitGui

DoesBrowser(op, tab_id, self) ==
    /\ browser' = self
    /\ browser_call' = [op |-> op, tab_id |-> tab_id, before |-> browser]
    /\ UNCHANGED <<walker, pair, threads, pure, styles, racing, tab, tab_trail, timers>>
CreateNewTab ==
    /\ browser.next_tab_id <= MaxTabs
    /\ DoesBrowser("_create_new_tab", NoTab, _create_new_tab(browser))
SwitchTab == \E tab_id \in TabIds : DoesBrowser("_switch_tab", tab_id, _switch_tab(browser, tab_id))
CloseTab == \E tab_id \in TabIds : DoesBrowser("_close_tab", tab_id, _close_tab(browser, tab_id))
CloseActiveTab == DoesBrowser("_close_active_tab", NoTab, _close_active_tab(browser))
NextTabKey == DoesBrowser("_next_tab", NoTab, _next_tab(browser))
PreviousTabKey == DoesBrowser("_previous_tab", NoTab, _previous_tab(browser))
NextBrowser ==
    \/ CreateNewTab \/ SwitchTab \/ CloseTab \/ CloseActiveTab \/ NextTabKey \/ PreviousTabKey
SpecBrowser == InitBrowser /\ [][NextBrowser]_vars

\* C26: the window always has at least one tab, active_tab_id is the id of
\* a tab that exists, tabs and tab_buttons have the same keys, and every
\* tab id is below next_tab_id.
C26_TabsWellFormed ==
    /\ Len(browser.tabs) >= 1
    /\ browser.active_tab_id \in Keys(browser.tabs)
    /\ Keys(browser.tabs) = Keys(browser.tab_buttons)
    /\ \A tab_id \in Keys(browser.tabs) : tab_id < browser.next_tab_id
\* The active tab of several was closed, and then the one left was asked to close.
C26_Witness ==
    /\ browser_call.op \in {"_close_tab", "_close_active_tab"}
    /\ Len(browser.tabs) = 1
    /\ browser_call.before = browser
    /\ browser.next_tab_id = MaxTabs + 1
    /\ browser.active_tab_id = browser.tabs[1]

====
